---- MODULE Spec2Model ----
(***************************************************************************)
(* Acquisition and resilience pipeline of the academia research assistant: *)
(* the primary search client (searchSemanticScholar), the aggregation     *)
(* orchestrator (runLibrarianAgent, Semantic Scholar path), the abstract   *)
(* enrichment cascade (fetchAbstractFromUrl) and the document resolver     *)
(* (handleDownloadPaper / attemptDownload).                                *)
(*                                                                         *)
(* Time is kept in milliseconds.  A pending setTimeout callback is kept as *)
(* its remaining time; Elapse(ms) lets ms pass and runs the callbacks that *)
(* fall due.                                                               *)
(***************************************************************************)
EXTENDS Integers, Sequences, FiniteSets, TLC

\* ---------------------------------------------------------------- bounds
NumTitles == 2        \* distinct titles (up to letter case) a provider can return
MaxBatch == 1         \* records in one provider page
MaxPages == 2         \* non-empty pages the provider serves to one search call
NumQueries == 2       \* distinct query strings a topic can give rise to
MaxScanDepth == 2     \* small scanDepth values explored (0..MaxScanDepth)
BigScanDepth == 600   \* a scanDepth above the hard cap
MaxRuns == 1          \* orchestrator runs in one behaviour
MaxCalls == 3         \* search calls a free caller makes in one behaviour
MaxLimitArg == 2      \* maxLimit values a free caller passes (0..MaxLimitArg)

NumEnrichUrls == 1    \* URLs whose abstract is fetched
MaxTicks == 3         \* clock steps in one behaviour
MaxJsonLd == 2        \* description/abstract fields in a page's JSON-LD blocks
MaxContainers == 1    \* abstract containers in a page
NumSites == 3         \* hosts a document link can point to
MaxSessions == 1      \* download sessions in one behaviour
MaxRequests == 11     \* attemptDownload calls counted in one session
NumPapers == 2           \* papers in the result list of ResultsView
MaxEnrichments == 2      \* handleFetchAbstract calls
MaxTopicWords == 2    \* words of a generated topic
MaxStarts == 3        \* runs of the pipeline the user starts
NumConcurrent == 3    \* fetchAbstractFromUrl calls in flight at once
MaxFullBatch == 2     \* records of a long page
MaxBreakerRequests == 6  \* responses the Semantic Reader breaker sees

\* ------------------------------------------------------ program constants
MAX_REQUESTS_PER_DOWNLOAD == 10
SEMANTIC_READER_FAIL_THRESHOLD == 3
SEMANTIC_READER_RESET_MS == 120000
MAX_DEPTH == 2
MIN_PDF_SIZE == 1000
SUMMARY_MIN_LEN == 50
FALLBACK_MIN_LEN == 100
SENTINEL_LEN == 17
ENRICH_COOLDOWN_MS == 30000
ABSTRACT_MIN_LEN == 100
CONTAINER_MIN_LEN == 50
BATCH_SIZE == 40
HARD_CAP == 500
FAIL_DELAY_MS == 1000
MAX_RETRY == 2
BACKOFF_BASE_MS == 3000
RATE_LIMIT_COOLDOWN_MS == 15000
BATCH_DELAY_MS == 2000
DEFAULT_DEPTH == 50
REQUEST_MARGIN == 20
STRATEGY_DELAY_MS == 5000

Min(a, b) == IF a < b THEN a ELSE b

\* ------------------------------------------------------------------ data
\* A title is a wording (1..NumTitles) spelled in lower case; wording 1 also
\* comes spelled with upper-case letters.  A Paper is identified by its title.
Titles == ((1..NumTitles) \X {"lower"}) \cup {<<1, "Mixed">>}

\* String.prototype.toLowerCase on a title
ToLowerCase(title) == <<title[1], "lower">>

\* A raw provider record: a title and whether it has title > 5 chars,
\* authors and an abstract > 50 chars.
RawRecords == [title : Titles, quality : {TRUE}] \cup [title : {<<1, "lower">>}, quality : {FALSE}]

RECURSIVE SeqsUpTo(_, _)
SeqsUpTo(S, n) ==
  IF n = 0 THEN {<<>>}
  ELSE LET shorter == SeqsUpTo(S, n - 1)
       IN shorter \cup {Append(s, x) : s \in {t \in shorter : Len(t) = n - 1}, x \in S}

Range(s) == {s[k] : k \in 1..Len(s)}

VARIABLES
  \* process-wide state of the primary client
  isSemanticScholarRateLimited, breakerTimers,
  \* one searchSemanticScholar call
  sPc, sQuery, allPapers, offset, hasMore, retryCount, hardLimit, sResult,
  \* observation of the current / last search call
  sReqs, s429Run, sFailRetries, sFailed, sPages, sShort, sTripped, sGuarded, sCalls,
  \* observation of the breaker
  tripAge, resetSinceTrip,
  \* one runLibrarianAgent run
  oPc, topic, targetDepth, scanDepth, queryStrategies, oI, aggregatedPapers,
  seenTitles, finalPapers, oCalls, oRuns, oDropped,
  \* observation of the run's provider calls, and the politeness delays taken
  oLate, oSecondary, oDelays,
  \* the result lists the providers returned to this run, and what the
  \* invocation before a repeated one received and returned
  oReturned, oPrev

clientVars == <<isSemanticScholarRateLimited, breakerTimers, sPc, sQuery, allPapers,
                offset, hasMore, retryCount, hardLimit, sResult, sReqs, s429Run, sFailRetries, sFailed, sPages,
                sShort, sTripped, sGuarded, sCalls, tripAge, resetSinceTrip>>
orchVars == <<oPc, topic, targetDepth, scanDepth, queryStrategies, oI, aggregatedPapers,
              seenTitles, finalPapers, oCalls, oRuns, oDropped, oLate, oSecondary,
              oDelays, oReturned, oPrev>>

VARIABLES
  \* fetchAbstractFromUrl: the module-level cache and the clock (Date.now)
  fetchedUrlsCache, clock,
  \* one fetchAbstractFromUrl call and its observation
  ePc, eUrl, ePage, eResult, eFetches, eLlm, eEntryAge, eStage1,
  \* what the origin answered the call's first fetch with: "pending" (status
  \* 202), "blocked" (a block signature), "clear", or "none"
  eFirst,
  \* fetchAbstractFromUrl calls that run at the same time: where each call
  \* is, its URL, the time it sent its gateway request, and what it returned
  cPc, cUrl, cAt, cResult

enrVars == <<fetchedUrlsCache, clock, ePc, eUrl, ePage, eResult, eFetches, eLlm,
             eEntryAge, eStage1, eFirst, cPc, cUrl, cAt, cResult>>

concVars == <<cPc, cUrl, cAt, cResult>>
ConcCalls == 1..NumConcurrent

VARIABLES
  \* ResultsView: React state and refs, module-level breaker, block-list store
  isDownloading, globalFetchedUrls, globalRequestCount, blockedUrls,
  semanticReaderFailCount, isSemanticReaderDisabled,
  \* one handleDownloadPaper session and the attemptDownload calls in it
  dlPc, oaUrl, stack, visitedUrls, aResult,
  \* observation of the session
  dlSessions, aReturned, aFetches, aMislabeled, aCycle,
  \* the response the outermost attemptDownload call received: the origin's
  \* status, whether the call left its URL on the block-list, and whether
  \* the URL is marked as fetched in this session
  aSeen,
  \* the keys of the URLs attemptDownload has fetched in this session, whether
  \* it fetched a key twice, whether it went on to fetch past a guard
  aKeys, aDup, aUnguarded,
  \* whether the latest response was a valid PDF fetched for a deep link
  aDeepPdf,
  \* whether the paper's link was on the block-list when the session began,
  \* and the URL the direct path fetched in this session
  oaListed, dFetched,
  \* the pending reset timers of the Semantic Reader breaker (line 2559), and
  \* observation of the breaker: responses it has seen, the run of 202
  \* answers of the Semantic Reader host, whether it tripped on a shorter run,
  \* whether a request went to the host while it was tripped
  brTimers, brReqs, brRun, brEarly, brSentTripped,
  \* whether an invocation of handleDownloadPaper that began during the
  \* session returned at its guard, and whether one went past the guard
  aIgnored, aOverlap

dlVars == <<isDownloading, globalFetchedUrls, globalRequestCount, blockedUrls,
            semanticReaderFailCount, isSemanticReaderDisabled,
            dlPc, oaUrl, stack, visitedUrls, aResult,
            dlSessions, aReturned, aFetches, aMislabeled, aCycle, aSeen,
            aKeys, aDup, aUnguarded, aDeepPdf, oaListed, dFetched,
            brTimers, brReqs, brRun, brEarly, brSentTripped, aIgnored, aOverlap>>

brObs == <<brReqs, brRun, brEarly, brSentTripped>>

VARIABLES
  \* strategy generation of one run: the topic, the LLM provider and what
  \* its request ends in, the optimized query, the strategy list
  gPc, gTopic, gProvider, gLlm, gAiQuery, gStrategies

genVars == <<gPc, gTopic, gProvider, gLlm, gAiQuery, gStrategies>>

VARIABLES
  \* the gateway's latest request: what the origin answered and what the
  \* handler answered
  gwOrigin, gwAnswer

gwVars == <<gwOrigin, gwAnswer>>

VARIABLES
  \* the orchestrator effect of App that awaits the run: its isMounted flag,
  \* and the number of provider calls the run had made when the effect was
  \* cleaned up
  isMounted, oCallsAtCleanup,
  \* App: the state of the pipeline, the scope of the run, the results the
  \* agents have delivered (librarianRes and dataRes: whether they are set;
  \* the two LaTeX texts: "null", "empty" or "text"), where the orchestrator
  \* effect of the current render is, and the runs started
  appState, researchScope, librarianRes, dataRes, latexDraft, finalLatex,
  plPc, plStarts

plVars == <<appState, researchScope, librarianRes, dataRes, latexDraft, finalLatex,
            plPc, plStarts>>

appVars == <<isMounted, oCallsAtCleanup, appState, researchScope, librarianRes,
             dataRes, latexDraft, finalLatex, plPc, plStarts>>

VARIABLES
  \* ResultsView: the summaries of librarianResult.papers, the
  \* enhancedSummaries state, the fetchingAbstractId state
  summaries, enhancedSummaries, fetchingAbstractId,
  \* one handleFetchAbstract call: its position, its index argument, whether
  \* the paper has a reader link, its local fullAbstract
  faPc, faIndex, faLink, fullAbstract,
  \* observation: the two stores when the call began, the calls made, and
  \* whether a call before this one ended without a usable abstract
  faBefore, faCalls, faFailedBefore

faVars == <<summaries, enhancedSummaries, fetchingAbstractId, faPc, faIndex, faLink,
            fullAbstract, faBefore, faCalls, faFailedBefore>>

vars == <<clientVars, orchVars, enrVars, dlVars, genVars, gwVars, appVars, faVars>>

NoTrip == -1

InitClient ==
  /\ isSemanticScholarRateLimited = FALSE
  /\ breakerTimers = <<>>
  /\ sPc = "idle"
  /\ sQuery = 0
  /\ allPapers = <<>>
  /\ offset = 0
  /\ hasMore = TRUE
  /\ retryCount = 0
  /\ hardLimit = 0
  /\ sResult = <<>>
  /\ sReqs = 0
  /\ s429Run = 0
  /\ sFailRetries = 0
  /\ sFailed = FALSE
  /\ sPages = 0
  /\ sShort = FALSE
  /\ sTripped = FALSE
  /\ sGuarded = FALSE
  /\ sCalls = 0
  /\ tripAge = NoTrip
  /\ resetSinceTrip = FALSE

\* no repeated invocation is being observed
NoPrev == [track |-> FALSE, valid |-> FALSE, returned |-> <<>>, papers |-> <<>>, seen |-> {},
           breaker |-> FALSE]

InitOrch ==
  /\ oPc = "idle"
  /\ topic = 0
  /\ targetDepth = 0
  /\ scanDepth = 0
  /\ queryStrategies = <<>>
  /\ oI = 0
  /\ aggregatedPapers = <<>>
  /\ seenTitles = {}
  /\ finalPapers = <<>>
  /\ oCalls = <<>>
  /\ oRuns = 0
  /\ oDropped = FALSE
  /\ oLate = FALSE
  /\ oDelays = 0
  /\ oSecondary = <<>>
  /\ oReturned = <<>>
  /\ oPrev = NoPrev

NoPage == [markers |-> FALSE, jsonLd |-> <<>>, meta |-> 0, raw |-> [len |-> 0, noAbstract |-> FALSE],
           containers |-> <<>>]
NoResult == <<"none", 0>>
NeverFetched == -1

InitEnrich ==
  /\ fetchedUrlsCache = [u \in {} |-> 0]
  /\ clock = 0
  /\ ePc = "idle"
  /\ eUrl = 0
  /\ ePage = NoPage
  /\ eResult = NoResult
  /\ eFetches = 0
  /\ eLlm = "none"
  /\ eEntryAge = NeverFetched
  /\ eStage1 = "none"
  /\ eFirst = "none"
  /\ cPc = [c \in ConcCalls |-> "idle"]
  /\ cUrl = [c \in ConcCalls |-> 0]
  /\ cAt = [c \in ConcCalls |-> NeverFetched]
  /\ cResult = [c \in ConcCalls |-> "none"]

\* no URL; the null a download attempt returns; no response received yet
NoUrl == [site |-> 0, query |-> 0]

\* the papers of a result, by their index in librarianResult.papers
PaperIndices == 1..NumPapers
NoIndex == 0

\* what fetchAbstractFromUrl returns: the sentinel, an empty text, or a text
\* of some length
NoAbstract == [kind |-> "none", len |-> 0]
ProviderSummary == [kind |-> "provider", len |-> 0]
Null == [type |-> "null", originalUrl |-> NoUrl]

NoSeen == [origin |-> 0, listed |-> FALSE, marked |-> FALSE]

\* ResultsView mounted, no session yet
InitSession ==
  /\ isDownloading = FALSE
  /\ globalFetchedUrls = {}
  /\ globalRequestCount = 0
  /\ semanticReaderFailCount = 0
  /\ isSemanticReaderDisabled = FALSE
  /\ dlPc = "idle"
  /\ oaUrl = NoUrl
  /\ stack = <<>>
  /\ visitedUrls = {}
  /\ aResult = Null
  /\ dlSessions = 0
  /\ aReturned = FALSE
  /\ aFetches = 0
  /\ aMislabeled = FALSE
  /\ aCycle = FALSE
  /\ aSeen = NoSeen
  /\ aKeys = {}
  /\ aDup = FALSE
  /\ aUnguarded = FALSE
  /\ aDeepPdf = FALSE
  /\ oaListed = FALSE
  /\ dFetched = NoUrl
  /\ brTimers = {}
  /\ brReqs = 0
  /\ brRun = 0
  /\ brEarly = FALSE
  /\ brSentTripped = FALSE
  /\ aIgnored = FALSE
  /\ aOverlap = FALSE

\* a profile whose blocked_urls store is empty
InitDownload == InitSession /\ blockedUrls = {}

\* the blocked_urls store as earlier runs of the application left it
PersistedBlockLists == {{}, {[site |-> 2, query |-> 0]}}

\* a profile that has been used before
InitDownloadStored == InitSession /\ blockedUrls \in PersistedBlockLists

InitGen ==
  /\ gPc = "idle"
  /\ gTopic = <<>>
  /\ gProvider = "none"
  /\ gLlm = [kind |-> "none", text |-> <<>>]
  /\ gAiQuery = <<>>
  /\ gStrategies = <<>>

\* no origin response: no request yet, no url parameter, or a failed fetch
NoOrigin == [status |-> 0, contentType |-> "", magic |-> FALSE, size |-> 0, ads |-> FALSE]

InitGateway ==
  /\ gwOrigin = NoOrigin
  /\ gwAnswer = NoOrigin

\* the effect that starts the run is mounted
InitApp ==
  /\ isMounted = TRUE
  /\ oCallsAtCleanup = 0
  /\ appState = "IDLE"
  /\ researchScope = "full_paper"
  /\ librarianRes = FALSE
  /\ dataRes = FALSE
  /\ latexDraft = "null"
  /\ finalLatex = "null"
  /\ plPc = "rest"
  /\ plStarts = 0

\* the papers of a result as the providers delivered them, none enriched
InitFetchAbstract ==
  /\ summaries = [i \in PaperIndices |-> ProviderSummary]
  /\ enhancedSummaries = [i \in PaperIndices |-> NoAbstract]
  /\ fetchingAbstractId = NoIndex
  /\ faPc = "idle"
  /\ faIndex = NoIndex
  /\ faLink = FALSE
  /\ fullAbstract = NoAbstract
  /\ faBefore = [papers |-> summaries, enhanced |-> enhancedSummaries]
  /\ faCalls = 0
  /\ faFailedBefore = FALSE

Init ==
  /\ InitClient /\ InitOrch /\ InitEnrich /\ InitDownload /\ InitGen /\ InitGateway
  /\ InitApp /\ InitFetchAbstract

InitStored ==
  /\ InitClient /\ InitOrch /\ InitEnrich /\ InitDownloadStored /\ InitGen /\ InitGateway
  /\ InitApp /\ InitFetchAbstract


\* ------------------------------------------------------------------ time
\* setTimeout callbacks of the breaker (line 399) that are still pending
\* after ms milliseconds, as remaining times
TimersAfter(ms) ==
  SelectSeq([k \in 1..Len(breakerTimers) |-> breakerTimers[k] - ms], LAMBDA r : r > 0)

\* the callback of line 399 ran during the last ms milliseconds
TimerFired(ms) == \E k \in 1..Len(breakerTimers) : breakerTimers[k] <= ms

\* time since the last trip, saturating at the cooldown
AgeAfter(ms) ==
  IF tripAge = NoTrip THEN NoTrip ELSE Min(tripAge + ms, RATE_LIMIT_COOLDOWN_MS)

\* ms milliseconds pass: due callbacks clear the flag
Elapse(ms) ==
  /\ breakerTimers' = TimersAfter(ms)
  /\ isSemanticScholarRateLimited' =
       (IF TimerFired(ms) THEN FALSE ELSE isSemanticScholarRateLimited)
  /\ tripAge' = AgeAfter(ms)

\* ------------------------------------------- searchSemanticScholar
\* the quality filter of lines 425-431
QualityFilter(p) == p.quality

\* lines 424-451: filter the raw records and map them to Papers
MappedBatch(data) ==
  LET kept == SelectSeq(data, QualityFilter)
  IN [k \in 1..Len(kept) |-> kept[k].title]

\* line 344
HardLimit(maxLimit) == Min(maxLimit, HARD_CAP)

\* line 348
CurrentLimit == Min(BATCH_SIZE, (hardLimit - Len(allPapers)) + 10)

\* a retry test that allows one retry too many
RetriesExhaustedLate(rc) == rc > MAX_RETRY + 1

\* line 391 and line 384: the retry allowance is used up
RetriesExhausted(rc) == rc > MAX_RETRY

\* line 404
BackoffMs(rc) == BACKOFF_BASE_MS * (rc + 1)

\* lines 323-346: entry of a call.  flag is the breaker flag the call
\* reads, guarded tells whether the call falls into a cooldown window.
SearchEnter(query, maxLimit, flag, guarded) ==
  /\ sQuery' = query
  /\ sCalls' = sCalls + 1
  /\ sGuarded' = guarded
  /\ sShort' = flag
  /\ sReqs' = 0
  /\ s429Run' = 0
  /\ sFailRetries' = 0
  /\ sFailed' = FALSE
  /\ sPages' = 0
  /\ sTripped' = FALSE
  /\ allPapers' = <<>>
  /\ offset' = 0
  /\ hasMore' = TRUE
  /\ retryCount' = 0
  /\ hardLimit' = (IF flag THEN hardLimit ELSE HardLimit(maxLimit))
  /\ sResult' = <<>>
  /\ sPc' = (IF flag \/ ~(0 < HardLimit(maxLimit)) THEN "done" ELSE "fetch")

\* the call in progress was made by the client's direct caller (query 0);
\* the failures of such a call are counted
DirectCall == sQuery = 0

\* a client that gives up with nothing
CollectedNone(papers) == <<>>

\* lines 384 and 458: the break leaves the loop for `return allPapers`
CollectedSoFar(papers) == papers

\* a client that does not count its retries
RetryCountStuck(rc) == rc

\* lines 386 and 407: retryCount++
RetryCountNext(rc) == rc + 1

\* lines 372-388: the request throws, times out, or has a status that is
\* neither ok nor 429
RespondError ==
  /\ sPc = "fetch"
  /\ sReqs' = sReqs + 1
  /\ s429Run' = 0
  /\ IF RetriesExhausted(retryCount)
     THEN /\ sPc' = "done"
          /\ sResult' = CollectedSoFar(allPapers)
          /\ retryCount' = retryCount
          /\ sFailRetries' = sFailRetries
          /\ sFailed' = DirectCall
          /\ UNCHANGED <<isSemanticScholarRateLimited, breakerTimers, tripAge>>
     ELSE /\ Elapse(FAIL_DELAY_MS)
          /\ retryCount' = RetryCountNext(retryCount)
          /\ sFailRetries' = (IF DirectCall THEN sFailRetries + 1 ELSE sFailRetries)
          /\ sFailed' = FALSE
          /\ sPc' = "fetch"
          /\ sResult' = sResult
  /\ UNCHANGED <<sQuery, allPapers, offset, hasMore, hardLimit, sPages, sShort,
                 sTripped, sGuarded, sCalls, resetSinceTrip>>
  /\ UNCHANGED <<orchVars, enrVars, dlVars, genVars, gwVars, appVars, faVars>>

\* a client that trips the breaker whatever it has collected
TripAlways(papers) == TRUE

\* lines 395-400: the breaker is tripped when nothing has been collected
TripNeeded(papers) == ~(Len(papers) > 0)

\* lines 390-409: the provider answers 429
Respond429 ==
  /\ sPc = "fetch"
  /\ sReqs' = sReqs + 1
  /\ s429Run' = s429Run + 1
  /\ IF RetriesExhausted(retryCount)
     THEN /\ sPc' = "done"
          /\ retryCount' = retryCount
          /\ IF ~TripNeeded(allPapers)
             THEN /\ sResult' = allPapers
                  /\ UNCHANGED <<isSemanticScholarRateLimited, breakerTimers, tripAge,
                                 sTripped, resetSinceTrip>>
             ELSE /\ isSemanticScholarRateLimited' = TRUE
                  /\ breakerTimers' = Append(breakerTimers, RATE_LIMIT_COOLDOWN_MS)
                  /\ tripAge' = 0
                  /\ resetSinceTrip' = FALSE
                  /\ sTripped' = TRUE
                  /\ sResult' = <<>>
     ELSE /\ Elapse(BackoffMs(retryCount))
          /\ retryCount' = RetryCountNext(retryCount)
          /\ sPc' = "fetch"
          /\ UNCHANGED <<sResult, sTripped, resetSinceTrip>>
  /\ UNCHANGED <<sQuery, allPapers, offset, hasMore, hardLimit, sPages, sShort,
                 sGuarded, sCalls, sFailRetries, sFailed>>
  /\ UNCHANGED <<orchVars, enrVars, dlVars, genVars, gwVars, appVars, faVars>>

\* a client that gives every batch its own retry allowance
RetryCountReset(rc) == 0

\* lines 341 and 413-456: retryCount is set once, before the loop, and a
\* fetched batch leaves it as it is
RetryCountAfterBatch(rc) == rc

\* batches of 2 to MaxFullBatch records that all pass the quality filter
FullBatches ==
  {[k \in 1..n |-> [title |-> <<1, "lower">>, quality |-> TRUE]] : n \in 2..MaxFullBatch}

\* the records of a page: any records up to MaxBatch of them, or a longer
\* page of good records
Batches == SeqsUpTo(RawRecords, MaxBatch) \cup FullBatches

\* lines 413-458: an ok response with a JSON body.  total = 0 stands for a
\* missing total.
RespondPage ==
  /\ sPc = "fetch"
  /\ sReqs' = sReqs + 1
  /\ s429Run' = 0
  /\ retryCount' = RetryCountAfterBatch(retryCount)
  /\ \E data \in Batches :
     \E total \in {0, offset + Len(data), offset + Len(data) + 1} :
       /\ Len(data) <= CurrentLimit
       /\ Len(data) > 0 => sPages < MaxPages
       /\ IF Len(data) = 0
          THEN /\ hasMore' = FALSE
               /\ sPc' = "done"
               /\ sResult' = allPapers
               /\ UNCHANGED <<allPapers, offset, sPages, isSemanticScholarRateLimited,
                              breakerTimers, tripAge>>
          ELSE /\ hasMore' = ~(total # 0 /\ offset + Len(data) >= total)
               /\ allPapers' = allPapers \o MappedBatch(data)
               /\ offset' = offset + Len(data)
               /\ sPages' = sPages + 1
               /\ IF Len(allPapers') < hardLimit /\ hasMore'
                  THEN /\ Elapse(BATCH_DELAY_MS)
                       /\ sPc' = "fetch"
                       /\ sResult' = sResult
                  ELSE /\ sPc' = "done"
                       /\ sResult' = allPapers'
                       /\ UNCHANGED <<isSemanticScholarRateLimited, breakerTimers, tripAge>>
  /\ UNCHANGED <<sQuery, hardLimit, sShort, sTripped, sGuarded, sCalls,
                 resetSinceTrip, sFailRetries, sFailed>>
  /\ UNCHANGED <<orchVars, enrVars, dlVars, genVars, gwVars, appVars, faVars>>

\* ---------------------------------------------- a free caller of the client
\* a caller invokes searchSemanticScholar(query, filters, maxLimit)
CallSearch ==
  /\ sPc \in {"idle", "done"}
  /\ sCalls < MaxCalls
  /\ \E maxLimit \in 0..MaxLimitArg :
       SearchEnter(0, maxLimit, isSemanticScholarRateLimited,
                   tripAge # NoTrip /\ tripAge < RATE_LIMIT_COOLDOWN_MS /\ ~resetSinceTrip)
  /\ UNCHANGED <<isSemanticScholarRateLimited, breakerTimers, tripAge, resetSinceTrip>>
  /\ UNCHANGED <<orchVars, enrVars, dlVars, genVars, gwVars, appVars, faVars>>

\* line 733: the orchestrator's explicit reset
ResetBreaker ==
  /\ sPc \in {"idle", "done"}
  /\ isSemanticScholarRateLimited \/ (tripAge # NoTrip /\ ~resetSinceTrip)
  /\ isSemanticScholarRateLimited' = FALSE
  /\ resetSinceTrip' = TRUE
  /\ UNCHANGED <<breakerTimers, sPc, sQuery, allPapers, offset, hasMore, retryCount,
                 hardLimit, sResult, sReqs, s429Run, sFailRetries, sFailed, sPages, sShort, sTripped, sGuarded,
                 sCalls, tripAge>>
  /\ UNCHANGED <<orchVars, enrVars, dlVars, genVars, gwVars, appVars, faVars>>

\* time passes between two calls
Wait ==
  /\ sPc \in {"idle", "done"}
  /\ breakerTimers # <<>>
  /\ Elapse(FAIL_DELAY_MS)
  /\ UNCHANGED <<sPc, sQuery, allPapers, offset, hasMore, retryCount, hardLimit, sResult,
                 sReqs, s429Run, sFailRetries, sFailed, sPages, sShort, sTripped, sGuarded, sCalls, resetSinceTrip>>
  /\ UNCHANGED <<orchVars, enrVars, dlVars, genVars, gwVars, appVars, faVars>>

NextClient == CallSearch \/ ResetBreaker \/ Wait \/ RespondError \/ Respond429 \/ RespondPage

SpecClient == Init /\ [][NextClient]_vars


\* ------------------------------------- runLibrarianAgent, Semantic Scholar path
Queries == 1..NumQueries
ScanDepths == (0..MaxScanDepth) \cup {BigScanDepth}

\* line 695: filters.scanDepth || 50 (0 and a missing scanDepth are both falsy)
TargetDepth(sd) == IF sd = 0 THEN DEFAULT_DEPTH ELSE sd

Includes(list, x) == x \in Range(list)

\* a strategy list that leaves out the basic keywords
PushBasicNever(list, basicQuery, aiQuery) == list

\* line 708
PushBasic(list, basicQuery, aiQuery) ==
  IF basicQuery # aiQuery THEN Append(list, basicQuery) ELSE list

\* line 713
PushBroad(list, broadQuery, aiQuery, basicQuery) ==
  IF broadQuery # aiQuery /\ broadQuery # basicQuery THEN Append(list, broadQuery) ELSE list

\* lines 716-719
PushSingle(list, hasSingle, singleWord) ==
  IF hasSingle /\ ~Includes(list, singleWord) THEN Append(list, singleWord) ELSE list

\* a strategy list that always ends with the topic
PushTopicAlways(list, tp) == Append(list, tp)

\* line 722
PushTopic(list, tp) == IF ~Includes(list, tp) THEN Append(list, tp) ELSE list

\* lines 700-722: the strategy list from the five candidates
StrategyList(aiQuery, basicQuery, broadQuery, hasSingle, singleWord, tp) ==
  PushTopic(PushSingle(PushBroad(PushBasic(<<aiQuery>>, basicQuery, aiQuery),
                                 broadQuery, aiQuery, basicQuery),
                       hasSingle, singleWord),
            tp)

\* lines 700-722: the strategy list from the five candidates; single = 0
\* stands for a longest word that is missing or not longer than 4
QueryStrategies(aiQuery, basicQuery, broadQuery, single, tp) ==
  StrategyList(aiQuery, basicQuery, broadQuery, single # 0, single, tp)

\* a dedup key that keeps the letter case
DedupKeyRaw(title) == title

\* lines 740 and 761: the key a paper is deduplicated by
DedupKey(title) == ToLowerCase(title)

\* a strategy loop that leaves the breaker as it is
BreakerKept(flag) == flag

\* line 733: the breaker flag after the reset that precedes each strategy
BreakerReset(flag) == FALSE

\* lines 739-745 and 760-765: papers.forEach with the seenTitles test
RECURSIVE MergePapers(_, _, _, _)
MergePapers(papers, agg, seen, dropped) ==
  IF papers = <<>> THEN [agg |-> agg, seen |-> seen, dropped |-> dropped]
  ELSE LET p == Head(papers)
       IN IF DedupKey(p) \in seen
          THEN MergePapers(Tail(papers), agg, seen, TRUE)
          ELSE MergePapers(Tail(papers), Append(agg, p), seen \cup {DedupKey(p)}, dropped)

\* Array.prototype.slice(0, n) for n >= 0
Slice(list, n) == SubSeq(list, 1, Min(n, Len(list)))

\* the result lists returned to a run are recorded for repeated invocations
Observed(returned, papers) == IF oPrev.track THEN Append(returned, papers) ELSE returned

\* a dedup set carried over from the invocation before
SeenKept(seen) == seen

\* line 697: const seenTitles = new Set(), made anew by every invocation
FreshSeen(seen) == {}

\* lines 694-724: a run starts, the strategies are generated
OrchStart ==
  /\ oPc \in {"idle", "done"}
  /\ sPc \in {"idle", "done"}
  /\ oRuns < MaxRuns
  /\ \E sd \in ScanDepths, aiQuery \in Queries, basicQuery \in Queries,
        broadQuery \in Queries, single \in {0} \cup Queries, tp \in Queries :
       /\ scanDepth' = sd
       /\ targetDepth' = TargetDepth(sd)
       /\ topic' = tp
       /\ queryStrategies' = QueryStrategies(aiQuery, basicQuery, broadQuery, single, tp)
  /\ oRuns' = oRuns + 1
  /\ aggregatedPapers' = <<>>
  /\ seenTitles' = FreshSeen(seenTitles)
  /\ finalPapers' = <<>>
  /\ oCalls' = <<>>
  /\ oDropped' = FALSE
  /\ oLate' = FALSE
  /\ oDelays' = 0
  /\ oSecondary' = <<>>
  /\ oReturned' = <<>>
  /\ oI' = 1
  /\ oPc' = "loop"
  /\ UNCHANGED oPrev
  /\ UNCHANGED clientVars
  /\ isMounted' = TRUE
  /\ oCallsAtCleanup' = 0
  /\ UNCHANGED plVars
  /\ UNCHANGED <<enrVars, dlVars, genVars, gwVars, faVars>>

\* lines 727-737: the breaker is cleared and strategy oI is searched
OrchStrategy ==
  /\ oPc = "loop"
  /\ oI <= Len(queryStrategies) /\ Len(aggregatedPapers) < targetDepth
  /\ oLate' = (oLate \/ Len(aggregatedPapers) >= targetDepth)
  /\ isSemanticScholarRateLimited' = BreakerReset(isSemanticScholarRateLimited)
  /\ resetSinceTrip' = (tripAge # NoTrip)
  /\ SearchEnter(queryStrategies[oI], (targetDepth - Len(aggregatedPapers)) + REQUEST_MARGIN,
                 BreakerReset(isSemanticScholarRateLimited), FALSE)
  /\ oCalls' = Append(oCalls, queryStrategies[oI])
  /\ oPc' = "await"
  /\ UNCHANGED <<breakerTimers, tripAge>>
  /\ UNCHANGED <<topic, targetDepth, scanDepth, queryStrategies, oI, aggregatedPapers,
                 seenTitles, finalPapers, oRuns, oDropped, oSecondary, oDelays, oReturned,
                 oPrev>>
  /\ UNCHANGED <<enrVars, dlVars, genVars, gwVars, appVars, faVars>>

\* a run that waits after every strategy
DelayAlways(have, target, i, n) == TRUE

\* line 749: more papers are needed and a strategy is left (oI counts from 1)
DelayNeeded(have, target, i, n) == have < target /\ i < n

\* lines 737-753: the search returned; merge, then the politeness delay
OrchMerge ==
  /\ oPc = "await"
  /\ sPc = "done"
  /\ LET m == MergePapers(sResult, aggregatedPapers, seenTitles, oDropped)
     IN /\ aggregatedPapers' = m.agg
        /\ seenTitles' = m.seen
        /\ oDropped' = m.dropped
        /\ IF DelayNeeded(Len(m.agg), targetDepth, oI, Len(queryStrategies))
           THEN Elapse(STRATEGY_DELAY_MS) /\ oDelays' = oDelays + 1
           ELSE UNCHANGED <<isSemanticScholarRateLimited, breakerTimers, tripAge, oDelays>>
        /\ oPc' = (IF oI + 1 <= Len(queryStrategies) /\ Len(m.agg) < targetDepth
                   THEN "loop" ELSE "afterLoop")
  /\ oI' = oI + 1
  /\ oReturned' = Observed(oReturned, sResult)
  /\ UNCHANGED <<sPc, sQuery, allPapers, offset, hasMore, retryCount, hardLimit, sResult,
                 sReqs, s429Run, sFailRetries, sFailed, sPages, sShort, sTripped, sGuarded, sCalls, resetSinceTrip>>
  /\ UNCHANGED <<topic, targetDepth, scanDepth, queryStrategies, finalPapers, oCalls, oRuns,
                 oLate, oSecondary, oPrev>>
  /\ UNCHANGED <<enrVars, dlVars, genVars, gwVars, appVars, faVars>>

\* Response.ok
IsOk(status) == status >= 200 /\ status <= 299

\* lines 625-639: what searchGoogleScholar returns for a response: the
\* mapped organic_results, or [] when the request or its parsing fails
GoogleResults == SeqsUpTo(Titles, MaxBatch)

\* what scholar.google.com answers: its status, the records the parser finds
\* in the page, and whether the page holds one of the markers "robot",
\* "captcha", "unusual traffic"
ScholarPages ==
  {pg \in [status : {200, 429}, papers : GoogleResults, markers : BOOLEAN] :
     pg.status # 200 => pg.papers = <<>>}

\* /api/scholar is served by the handler of src/api/proxy.js or by the
\* development server's bypass
ScholarDeployments == {"handler", "devServer"}

\* lines 1504-1509: zero parsed records on a page with a marker
ScholarBlocked(pg) == IsOk(pg.status) /\ pg.papers = <<>> /\ pg.markers

\* the answer of /api/scholar: status, and the field of the JSON body that
\* carries the records
ScholarAnswer(deployment, pg) ==
  IF deployment = "handler"
  THEN \* src/api/proxy.js lines 1414-1516
       IF ~IsOk(pg.status) THEN [status |-> pg.status, field |-> "error", papers |-> <<>>]
       ELSE IF ScholarBlocked(pg) THEN [status |-> 429, field |-> "error", papers |-> <<>>]
       ELSE [status |-> 200, field |-> "data", papers |-> pg.papers]
  ELSE \* src/unnamed/part_003 lines 428-549
       IF pg.status = 429 THEN [status |-> 429, field |-> "error", papers |-> <<>>]
       ELSE [status |-> 200, field |-> "organic_results", papers |-> pg.papers]

\* lines 625-639: the mapped organic_results of an ok answer, [] otherwise
searchGoogleScholar(answer) ==
  IF ~IsOk(answer.status) THEN <<>>
  ELSE IF answer.field = "organic_results" THEN answer.papers
  ELSE <<>>

\* a page without records and without markers
EmptyPage == [status |-> 200, papers |-> <<>>, markers |-> FALSE]

\* lines 758: what one call of searchGoogleScholar leaves its caller with:
\* the list returned, whether the page was a blocked one, and whether the
\* list is the one returned for an empty page
SecondaryOutcomes ==
  {[papers |-> searchGoogleScholar(ScholarAnswer(deployment, pg)),
    blocked |-> ScholarBlocked(pg),
    sameAsEmpty |-> searchGoogleScholar(ScholarAnswer(deployment, pg))
                      = searchGoogleScholar(ScholarAnswer(deployment, EmptyPage))] :
     deployment \in ScholarDeployments, pg \in ScholarPages}

\* a fallback taken whatever has been collected
SecondaryAlways(papers, target) == TRUE

\* line 756: the test that sends the run to the secondary provider
SecondaryNeeded(papers, target) == Len(papers) < target

\* lines 755-772: the target is still unmet: one secondary search, then return
OrchSecondary ==
  /\ oPc = "afterLoop"
  /\ SecondaryNeeded(aggregatedPapers, targetDepth)
  /\ oLate' = (oLate \/ Len(aggregatedPapers) >= targetDepth)
  /\ \E out \in SecondaryOutcomes :
       LET googlePapers == out.papers
           m == MergePapers(googlePapers, aggregatedPapers, seenTitles, oDropped)
       IN /\ oSecondary' = Append(oSecondary,
                                  [query |-> topic, tried |-> oI - 1,
                                   blocked |-> out.blocked,
                                   sameAsEmpty |-> out.sameAsEmpty])
          /\ aggregatedPapers' = m.agg
          /\ seenTitles' = m.seen
          /\ oDropped' = m.dropped
          /\ finalPapers' = Slice(m.agg, targetDepth)
          /\ oReturned' = Observed(oReturned, googlePapers)
  /\ oCalls' = Append(oCalls, 0)
  /\ oPc' = "done"
  /\ UNCHANGED clientVars
  /\ UNCHANGED <<enrVars, dlVars, genVars, gwVars, appVars, faVars>>
  /\ UNCHANGED <<topic, targetDepth, scanDepth, queryStrategies, oI, oRuns, oDelays, oPrev>>

\* lines 756 and 769-772: the target is met: return
OrchReturn ==
  /\ oPc = "afterLoop"
  /\ ~SecondaryNeeded(aggregatedPapers, targetDepth)
  /\ finalPapers' = Slice(aggregatedPapers, targetDepth)
  /\ oPc' = "done"
  /\ UNCHANGED clientVars
  /\ UNCHANGED <<enrVars, dlVars, genVars, gwVars, appVars, faVars>>
  /\ UNCHANGED <<topic, targetDepth, scanDepth, queryStrategies, oI, aggregatedPapers,
                 seenTitles, oCalls, oRuns, oDropped, oLate, oSecondary, oDelays, oReturned,
                 oPrev>>

NextOrch ==
  \/ OrchStart \/ OrchStrategy \/ OrchMerge \/ OrchSecondary \/ OrchReturn
  \/ RespondError \/ Respond429 \/ RespondPage

SpecOrch == Init /\ [][NextOrch]_vars

\* ------------------------------------------------ the effect of App
\* App.tsx lines 232-354: the effect awaits runLibrarianAgent and tests
\* isMounted after the await; its cleanup sets isMounted to false.  The run is
\* handed no signal and reads no flag.
EffectCleanup ==
  /\ isMounted
  /\ oPc \in {"loop", "await", "afterLoop"}
  /\ isMounted' = FALSE
  /\ oCallsAtCleanup' = Len(oCalls)
  /\ UNCHANGED plVars
  /\ UNCHANGED <<clientVars, orchVars, enrVars, dlVars, genVars, gwVars, faVars>>

NextApp == NextOrch \/ EffectCleanup

SpecApp == Init /\ [][NextApp]_vars

\* ---------------------------------------------- the pipeline of App
\* The orchestrator effect runs after every render in which one of its
\* dependencies has changed: plPc is "run" when the effect is due, "await"
\* while its agent call is in flight and "rest" when it has returned without
\* a call in flight.
otherVarsPl == <<clientVars, orchVars, enrVars, dlVars, genVars, gwVars, faVars,
                 isMounted, oCallsAtCleanup>>

ResearchScopes == {"full_paper", "lit_review"}

\* the texts a writer agent returns: r.text || "" and the Ollama answer may
\* be empty, and a failed request yields the text "% Error"
WriterTexts == {"empty", "text"}

\* line 330: `latexDraft` as a condition: null and "" are falsy
HasDraft(draft) == draft = "text"

\* App.tsx lines 356-409 and 940: the start button, enabled in IDLE and in
\* FINISHED; latexDraft is not among the states handleStart resets
HandleStart ==
  /\ appState \in {"IDLE", "FINISHED"}
  /\ plStarts < MaxStarts
  /\ plStarts' = plStarts + 1
  /\ \E scope \in ResearchScopes : researchScope' = scope
  /\ librarianRes' = FALSE
  /\ dataRes' = FALSE
  /\ finalLatex' = "null"
  /\ appState' = "ANALYZING"
  /\ plPc' = "run"
  /\ UNCHANGED latexDraft
  /\ UNCHANGED otherVarsPl

\* lines 232-340: the effect runs up to its first await or to its return
EffectRun ==
  /\ plPc = "run"
  /\ IF appState = "ANALYZING" /\ researchScope = "lit_review"
     THEN appState' = "LIBRARIAN" /\ plPc' = "run"
     ELSE IF appState = "LIT_REVIEW_WRITER" /\ librarianRes
     THEN appState' = "FINISHED" /\ plPc' = "run"
     ELSE IF \/ appState \in {"ANALYZING", "LIBRARIAN"}
             \/ appState = "DATA_SCIENTIST" /\ librarianRes
             \/ appState = "GHOSTWRITER" /\ librarianRes /\ dataRes
             \/ appState = "REVIEWER" /\ HasDraft(latexDraft)
     THEN plPc' = "await" /\ UNCHANGED appState
     ELSE plPc' = "rest" /\ UNCHANGED appState
  /\ UNCHANGED <<researchScope, librarianRes, dataRes, latexDraft, finalLatex, plStarts>>
  /\ UNCHANGED otherVarsPl

\* lines 342-348: the agent call throws; the catch sets the error and IDLE
AgentThrows ==
  /\ plPc = "await"
  /\ appState \in {"ANALYZING", "LIBRARIAN", "DATA_SCIENTIST"}
  /\ appState' = "IDLE"
  /\ plPc' = "run"
  /\ UNCHANGED <<researchScope, librarianRes, dataRes, latexDraft, finalLatex, plStarts>>
  /\ UNCHANGED otherVarsPl

\* lines 249-339: the agent call of the step returns and the step sets the
\* state; the writer agents catch their errors and always return
AgentReturns ==
  /\ plPc = "await"
  /\ plPc' = "run"
  /\ \/ /\ appState = "ANALYZING"
        /\ \E isSufficient \in BOOLEAN :
             appState' = IF isSufficient THEN "LIBRARIAN" ELSE "AWAITING_INPUT"
        /\ UNCHANGED <<librarianRes, dataRes, latexDraft, finalLatex>>
     \/ /\ appState = "LIBRARIAN"
        /\ librarianRes' = TRUE
        /\ appState' = IF researchScope = "lit_review" THEN "LIT_REVIEW_WRITER"
                       ELSE "DATA_SCIENTIST"
        /\ UNCHANGED <<dataRes, latexDraft, finalLatex>>
     \/ /\ appState = "DATA_SCIENTIST"
        /\ dataRes' = TRUE
        /\ appState' = "GHOSTWRITER"
        /\ UNCHANGED <<librarianRes, latexDraft, finalLatex>>
     \/ /\ appState = "GHOSTWRITER"
        /\ \E result \in WriterTexts : latexDraft' = result
        /\ appState' = "REVIEWER"
        /\ UNCHANGED <<librarianRes, dataRes, finalLatex>>
     \/ /\ appState = "REVIEWER"
        /\ \E result \in WriterTexts : finalLatex' = result
        /\ appState' = "FINISHED"
        /\ UNCHANGED <<librarianRes, dataRes, latexDraft>>
  /\ UNCHANGED <<researchScope, plStarts>>
  /\ UNCHANGED otherVarsPl

\* lines 436-499: the user answers the request for more input
SubmitClarification ==
  /\ appState = "AWAITING_INPUT"
  /\ plPc = "rest"
  /\ appState' = "LIBRARIAN"
  /\ plPc' = "run"
  /\ UNCHANGED <<researchScope, librarianRes, dataRes, latexDraft, finalLatex, plStarts>>
  /\ UNCHANGED otherVarsPl

NextPipeline == HandleStart \/ EffectRun \/ AgentThrows \/ AgentReturns \/ SubmitClarification

SpecPipeline == Init /\ [][NextPipeline]_vars

\* React runs the effect that is due, and every agent call returns or throws
SpecPipelineFair ==
  /\ SpecPipeline
  /\ WF_vars(EffectRun)
  /\ WF_vars(AgentThrows \/ AgentReturns)

\* ---------------------------------------------- a repeated invocation
\* The caller invokes the orchestrator twice with the same topic and filters,
\* and the query optimizer answers the same both times.

\* the arguments of the repeated invocation: a target of one paper and a
\* strategy list that holds the topic alone
RerunInputs == {[sd |-> Min(1, MaxScanDepth), strategies |-> <<tp>>, tp |-> tp] : tp \in {Min(1, NumQueries)}}

\* lines 694-724: the locals of an invocation
RunLocals(sd, strategies, tp) ==
  /\ scanDepth' = sd
  /\ targetDepth' = TargetDepth(sd)
  /\ topic' = tp
  /\ queryStrategies' = strategies
  /\ oRuns' = oRuns + 1
  /\ aggregatedPapers' = <<>>
  /\ seenTitles' = FreshSeen(seenTitles)
  /\ finalPapers' = <<>>
  /\ oCalls' = <<>>
  /\ oDropped' = FALSE
  /\ oLate' = FALSE
  /\ oDelays' = 0
  /\ oSecondary' = <<>>
  /\ oReturned' = <<>>
  /\ oI' = 1
  /\ oPc' = "loop"
  /\ UNCHANGED clientVars
  /\ isMounted' = TRUE
  /\ oCallsAtCleanup' = 0
  /\ UNCHANGED plVars
  /\ UNCHANGED <<enrVars, dlVars, genVars, gwVars, faVars>>

\* the first invocation
RerunFirst ==
  /\ oPc = "idle"
  /\ \E in \in RerunInputs : RunLocals(in.sd, in.strategies, in.tp)
  /\ oPrev' = [NoPrev EXCEPT !.track = TRUE]

\* the second invocation, with the arguments and the strategies of the first
RerunSecond ==
  /\ oPc = "done"
  /\ ~oPrev.valid
  /\ RunLocals(scanDepth, queryStrategies, topic)
  /\ oPrev' = [track |-> TRUE, valid |-> TRUE, returned |-> oReturned, papers |-> finalPapers,
               seen |-> seenTitles, breaker |-> isSemanticScholarRateLimited]

NextRerun ==
  \/ RerunFirst \/ RerunSecond \/ OrchStrategy \/ OrchMerge \/ OrchSecondary \/ OrchReturn
  \/ RespondError \/ Respond429 \/ RespondPage

SpecRerun == Init /\ [][NextRerun]_vars


\* ------------------------------------------------------------- strings
\* A string is the sequence of its characters.
UpperChars == <<"A", "B", "C", "D", "E", "F", "G", "H", "I", "J", "K", "L", "M", "N", "O", "P", "Q", "R", "S", "T", "U", "V", "W", "X", "Y", "Z">>
LowerChars == <<"a", "b", "c", "d", "e", "f", "g", "h", "i", "j", "k", "l", "m", "n", "o", "p", "q", "r", "s", "t", "u", "v", "w", "x", "y", "z">>
DigitChars == {"0", "1", "2", "3", "4", "5", "6", "7", "8", "9"}

\* the regular expression classes \w and \s
WordChars == Range(UpperChars) \cup Range(LowerChars) \cup DigitChars \cup {"_"}
SpaceChars == {" "}

\* a character outside \x00-\x7F and À-ɏ
NonLatinChar == "#nonlatin"

\* String.prototype.toLowerCase
CharLower(c) ==
  IF c \in Range(UpperChars)
  THEN LowerChars[CHOOSE k \in 1..Len(UpperChars) : UpperChars[k] = c]
  ELSE c
LowerCaseStr(str) == [k \in 1..Len(str) |-> CharLower(str[k])]

\* str.replace(/[^...]/g, '') for the character class keep
KeepChars(str, keep) == SelectSeq(str, LAMBDA c : c \in keep)

\* str.split(/\s+/): a leading or trailing run of spaces yields an empty
\* first or last element, and the empty string yields one empty element
RECURSIVE SplitFrom(_, _, _, _)
SplitFrom(str, cur, out, inSpaces) ==
  IF str = <<>> THEN Append(out, cur)
  ELSE IF Head(str) \in SpaceChars
       THEN IF inSpaces THEN SplitFrom(Tail(str), cur, out, TRUE)
            ELSE SplitFrom(Tail(str), <<>>, Append(out, cur), TRUE)
       ELSE SplitFrom(Tail(str), Append(cur, Head(str)), out, FALSE)
SplitSpaces(str) == SplitFrom(str, <<>>, <<>>, FALSE)

\* [...new Set(words)]: first occurrences, in order
RECURSIVE Dedup(_, _)
Dedup(words, out) ==
  IF words = <<>> THEN out
  ELSE Dedup(Tail(words), IF Includes(out, Head(words)) THEN out ELSE Append(out, Head(words)))

\* words.join(sep)
RECURSIVE Join(_, _)
Join(words, sep) ==
  IF words = <<>> THEN <<>>
  ELSE IF Len(words) = 1 THEN words[1]
  ELSE words[1] \o sep \o Join(Tail(words), sep)

\* String.prototype.trim
RECURSIVE TrimStart(_)
TrimStart(str) ==
  IF str # <<>> /\ Head(str) \in SpaceChars THEN TrimStart(Tail(str)) ELSE str
RECURSIVE TrimEnd(_)
TrimEnd(str) ==
  IF str # <<>> /\ str[Len(str)] \in SpaceChars
  THEN TrimEnd(SubSeq(str, 1, Len(str) - 1)) ELSE str
Trim(str) == TrimEnd(TrimStart(str))

\* str.replace(/\s+/g, ' ')
RECURSIVE CollapseSpaces(_, _)
CollapseSpaces(str, inSpaces) ==
  IF str = <<>> THEN <<>>
  ELSE IF Head(str) \in SpaceChars
       THEN IF inSpaces THEN CollapseSpaces(Tail(str), TRUE)
            ELSE <<" ">> \o CollapseSpaces(Tail(str), TRUE)
       ELSE <<Head(str)>> \o CollapseSpaces(Tail(str), FALSE)

\* words.sort((a, b) => b.length - a.length): stable, longest first
RECURSIVE InsertByLength(_, _)
InsertByLength(sorted, w) ==
  IF sorted = <<>> THEN <<w>>
  ELSE IF Len(Head(sorted)) >= Len(w) THEN <<Head(sorted)>> \o InsertByLength(Tail(sorted), w)
  ELSE <<w>> \o sorted
RECURSIVE SortByLength(_, _)
SortByLength(words, sorted) ==
  IF words = <<>> THEN sorted
  ELSE SortByLength(Tail(words), InsertByLength(sorted, Head(words)))

\* ------------------------------------------------ extractKeywordsBasic
stopWords ==
  {
   <<"w", "h", "a", "t">>, <<"h", "o", "w">>, <<"d", "o", "e", "s">>, <<"d", "o">>,
   <<"t", "h", "e">>, <<"a">>, <<"a", "n">>, <<"i", "n">>, <<"o", "n">>, <<"o", "f">>,
   <<"f", "o", "r">>, <<"t", "o">>, <<"f", "r", "o", "m">>, <<"w", "i", "t", "h">>,
   <<"b", "y">>, <<"a", "c", "t", "u", "a", "l", "l", "y">>,
   <<"c", "a", "p", "t", "u", "r", "e">>, <<"b", "a", "s", "e", "d">>, <<"i", "s">>,
   <<"a", "r", "e">>, <<"b", "e", "t", "w", "e", "e", "n">>, <<"a", "m", "o", "n", "g">>,
   <<"a", "n", "a", "l", "y", "s", "i", "s">>, <<"s", "t", "u", "d", "y">>,
   <<"i", "n", "v", "e", "s", "t", "i", "g", "a", "t", "i", "o", "n">>,
   <<"r", "e", "v", "i", "e", "w">>, <<"o", "v", "e", "r", "v", "i", "e", "w">>,
   <<"c", "o", "m", "p", "o", "n", "e", "n", "t", "s">>,
   <<"i", "n", "f", "o", "r", "m", "a", "t", "i", "o", "n">>, <<"a", "b", "o", "u", "t">>,
   <<"r", "e", "g", "a", "r", "d", "i", "n", "g">>, <<"u", "s", "i", "n", "g">>,
   <<"v", "i", "a">>, <<"e", "f", "f", "e", "c", "t">>, <<"i", "m", "p", "a", "c", "t">>
  }

MIN_TOKEN_LEN == 2

\* an extractor without a stop list
IsStopWordNever(w) == FALSE

\* line 174: stopWords.has(w)
IsStopWord(w) == w \in stopWords

\* an extractor that keeps every occurrence of a word
UniqueWordsKept(words) == words

\* line 176: [...new Set(words)]
UniqueWords(words) == Dedup(words, <<>>)

\* lines 171-176
extractKeywordsBasic(text) ==
  LET words == SelectSeq(SplitSpaces(KeepChars(LowerCaseStr(text),
                                               WordChars \cup SpaceChars \cup {"-"})),
                         LAMBDA w : ~IsStopWord(w) /\ Len(w) > MIN_TOKEN_LEN)
  IN Join(UniqueWords(words), <<" ">>)

\* ------------------------------------------------ strategy generation
\* the words a topic is typed from
Vocabulary ==
  {<<"I", "m", "p", "a", "c", "t">>,
   <<"o", "f">>,
   <<"A", "I">>,
   <<"o", "n">>,
   <<"c", "a", "n", "c", "e", "r">>,
   <<"C", "a", "n", "c", "e", "r", "!">>,
   <<"g", "e", "n", "o", "m", "i", "c", "s">>}

\* the topic of the extractor scenario: Impact of AI on cancer
ScenarioTopic == <<"I", "m", "p", "a", "c", "t", " ", "o", "f", " ", "A", "I", " ", "o", "n", " ", "c", "a", "n", "c", "e", "r">>

\* non-empty topics: up to MaxTopicWords words separated by one space, the
\* scenario topic, and a topic with surrounding and doubled spaces
Topics ==
  {Join(ws, <<" ">>) : ws \in SeqsUpTo(Vocabulary, MaxTopicWords) \ {<<>>}}
  \cup {ScenarioTopic, <<" ", "c", "a", "n", "c", "e", "r", " ", " ", "o", "f", " ">>}

Providers == {"ollama", "gemini"}

\* texts the LLM answers with; none holds a parenthesis or one of the
\* phrases sanitizeSearchQuery deletes (keywords, search terms, output, example)
LlmTexts ==
  {<<>>,
   <<"a", "b">>,
   <<"c", "a", "n", "c", "e", "r">>,
   <<"c", "a", "n", "c", "e", "r", " ", "g", "e", "n", "o", "m", "i", "c", "s">>,
   <<"'", "c", "a", "n", "c", "e", "r", "'", ":", " ", "g", "e", "n", "o", "m", "i", "c", "s">>,
   <<NonLatinChar, " ", "c", "a", "n", "c", "e", "r", " ", "g", "e", "n", "o", "m", "i", "c", "s">>,
   <<" ", " ", "c", "a", "n", "c", "e", "r", " ", " ", " ", "o", "n", "c", "o", "l", "o", "g", "y", " ">>}

\* what the LLM request of optimizeSearchQuery ends in
LlmResults ==
  {[kind |-> "throws", text |-> <<>>]} \cup {[kind |-> "text", text |-> t] : t \in LlmTexts}

\* the quote, colon and semicolon characters of line 281
DoubleQuoteChar == "#doublequote"
BacktickChar == "#backtick"
QuoteChars == {DoubleQuoteChar, "'", BacktickChar, ":", ";"}

\* lines 274-283, for a text without the deleted phrases and parentheses
sanitizeSearchQuery(text) ==
  LET latin == [k \in 1..Len(text) |-> IF text[k] = NonLatinChar THEN " " ELSE text[k]]
      plain == [k \in 1..Len(latin) |->
                  IF latin[k] \in QuoteChars THEN " " ELSE latin[k]]
  IN Trim(CollapseSpaces(plain, FALSE))

MIN_CLEAN_LEN == 5
MIN_REAL_WORDS == 2

\* line 310: the test that rejects the sanitized LLM output
InvalidKeywords(clean) ==
  \/ Len(clean) < MIN_CLEAN_LEN
  \/ Len(SelectSeq(SplitSpaces(clean), LAMBDA w : Len(w) > MIN_TOKEN_LEN)) < MIN_REAL_WORDS

\* lines 287-319
optimizeSearchQuery(tp, provider, llm) ==
  IF llm.kind = "throws" THEN extractKeywordsBasic(tp)
  ELSE LET keywords == IF provider = "ollama" THEN Trim(llm.text)
                       ELSE Trim(IF llm.text = <<>> THEN tp ELSE llm.text)
           clean == sanitizeSearchQuery(keywords)
       IN IF InvalidKeywords(clean) THEN extractKeywordsBasic(tp) ELSE clean

MAX_BROAD_WORDS == 3
MIN_SINGLE_LEN == 4

\* line 711: the words of the topic, longest first
TopicWords(tp) == SortByLength(SplitSpaces(KeepChars(tp, WordChars \cup SpaceChars)), <<>>)

\* line 712
BroadQuery(tp) == Join(Slice(TopicWords(tp), MAX_BROAD_WORDS), <<" ">>)

\* line 716
HasSingleWord(tp) == Len(TopicWords(tp)[1]) > MIN_SINGLE_LEN

\* lines 700-722 for a topic and the optimized query
StrategiesOf(tp, aiQuery) ==
  StrategyList(aiQuery, extractKeywordsBasic(tp), BroadQuery(tp), HasSingleWord(tp),
               TopicWords(tp)[1], tp)

otherVarsGen == <<clientVars, orchVars, enrVars, dlVars, gwVars, appVars, faVars>>

\* lines 700-703: a run asks for the optimized query of its topic
GenStart ==
  /\ gPc \in {"idle", "done"}
  /\ \E tp \in Topics, provider \in Providers :
       /\ gTopic' = tp
       /\ gProvider' = provider
  /\ gLlm' = [kind |-> "none", text |-> <<>>]
  /\ gAiQuery' = <<>>
  /\ gStrategies' = <<>>
  /\ gPc' = "optimize"
  /\ UNCHANGED otherVarsGen

\* lines 703-724: the LLM request ends; the strategy list is built
GenBuild ==
  /\ gPc = "optimize"
  /\ \E llm \in LlmResults :
       LET aiQuery == optimizeSearchQuery(gTopic, gProvider, llm) IN
       /\ gLlm' = llm
       /\ gAiQuery' = aiQuery
       /\ gStrategies' = StrategiesOf(gTopic, aiQuery)
  /\ gPc' = "done"
  /\ UNCHANGED <<gTopic, gProvider>>
  /\ UNCHANGED otherVarsGen

NextGen == GenStart \/ GenBuild

SpecGen == Init /\ [][NextGen]_vars

\* ------------------------------------------------ the network gateway
\* status codes an origin server answers with
OriginStatuses == {200, 202, 401, 403, 404, 429, 500, 504}

\* src/api/proxy.js handler: the status the gateway answers with for an
\* origin status (an origin 202 is answered with 429)
ProxyStatus(origin) == IF origin = 202 THEN 429 ELSE origin

\* ------------------------------------------------ fetchAbstractFromUrl
EnrichUrls == 1..NumEnrichUrls
EnrichStep == ENRICH_COOLDOWN_MS \div 3
NOT_FOUND == <<"NO_ABSTRACT_FOUND", 0>>

\* A description/abstract field of a JSON-LD block: len is the length of
\* its value, matched the length of the text the pattern "([^"]+)" of
\* line 908 matches (shorter than the value when the value holds an
\* escaped double quote).
JsonLdFields ==
  {[len |-> n, matched |-> n] :
     n \in {ABSTRACT_MIN_LEN - 50, ABSTRACT_MIN_LEN, ABSTRACT_MIN_LEN + 1}}
  \cup {[len |-> 2 * ABSTRACT_MIN_LEN, matched |-> ABSTRACT_MIN_LEN - 50]}

\* the first "abstract":"..." field of the page (line 929), unescaped
RawFields ==
  {[len |-> n, noAbstract |-> FALSE] : n \in {0, ABSTRACT_MIN_LEN, ABSTRACT_MIN_LEN + 1}}
  \cup {[len |-> ABSTRACT_MIN_LEN + 1, noAbstract |-> TRUE]}

\* the text of an abstract container (lines 947-951)
ContainerTexts ==
  {[len |-> CONTAINER_MIN_LEN, tldr |-> FALSE], [len |-> CONTAINER_MIN_LEN + 1, tldr |-> FALSE],
   [len |-> CONTAINER_MIN_LEN + 1, tldr |-> TRUE]}

\* What the cascade reads of an HTML text: block markers, the JSON-LD
\* description/abstract fields in document order, the length of the first
\* description meta tag (0: none), the first inline abstract field, and the
\* containers found for the class names of line 942, in that order.
Pages ==
  [markers : BOOLEAN, jsonLd : SeqsUpTo(JsonLdFields, MaxJsonLd),
   meta : {0, ABSTRACT_MIN_LEN, ABSTRACT_MIN_LEN + 1}, raw : RawFields,
   containers : SeqsUpTo(ContainerTexts, MaxContainers)]

\* the body of an error answer
ErrorPages == {[NoPage EXCEPT !.markers = m] : m \in BOOLEAN}

\* a cooldown test that still blocks at exactly the cooldown
InCooldownInclusive(cache, url, now) ==
  url \in DOMAIN cache /\ now - cache[url] <= ENRICH_COOLDOWN_MS

\* lines 823-829: the per-URL cooldown test
InCooldown(cache, url, now) ==
  url \in DOMAIN cache /\ now - cache[url] < ENRICH_COOLDOWN_MS

\* lines 862-868
IsBlocked(page, status) ==
  page.markers \/ status \in {202, 403, 504, 401, 429}

\* lines 903-913
JsonLdStage(page) ==
  IF page.jsonLd # <<>> /\ page.jsonLd[1].matched > ABSTRACT_MIN_LEN
  THEN <<"jsonld", 1>> ELSE NoResult

\* lines 918-923
MetaStage(page) == IF page.meta > ABSTRACT_MIN_LEN THEN <<"meta", 0>> ELSE NoResult

\* lines 929-938
RawJsonStage(page) ==
  IF page.raw.len > ABSTRACT_MIN_LEN /\ ~page.raw.noAbstract THEN <<"raw", 0>> ELSE NoResult

\* lines 942-959
ContainerStage(page) ==
  LET good == {k \in 1..Len(page.containers) :
                 page.containers[k].len > CONTAINER_MIN_LEN /\ ~page.containers[k].tldr}
  IN IF good = {} THEN NoResult
     ELSE <<"container", CHOOSE k \in good : \A j \in good : k <= j>>

\* a cascade that consults the meta tags before the JSON-LD blocks
CascadeMetaFirst(page) ==
  IF MetaStage(page) # NoResult THEN MetaStage(page)
  ELSE IF JsonLdStage(page) # NoResult THEN JsonLdStage(page)
  ELSE IF RawJsonStage(page) # NoResult THEN RawJsonStage(page)
  ELSE ContainerStage(page)

\* lines 901-959: the stages that read the fetched text, first hit wins
Cascade(page) ==
  IF JsonLdStage(page) # NoResult THEN JsonLdStage(page)
  ELSE IF MetaStage(page) # NoResult THEN MetaStage(page)
  ELSE IF RawJsonStage(page) # NoResult THEN RawJsonStage(page)
  ELSE ContainerStage(page)

\* lines 901-1000 up to the LLM request: return a hit or go on to the LLM
RunCascade(page) ==
  /\ ePage' = page
  /\ eStage1' = "ok"
  /\ IF Cascade(page) # NoResult
     THEN ePc' = "done" /\ eResult' = Cascade(page)
     ELSE ePc' = "llm" /\ eResult' = eResult

\* an early return "NO_ABSTRACT_FOUND" of stage 1
Stage1Fails ==
  /\ ePc' = "done"
  /\ eResult' = NOT_FOUND
  /\ eStage1' = "failed"
  /\ ePage' = ePage

\* lines 820-830: entry of a call
EnrichCall ==
  /\ ePc = "idle"
  /\ \E url \in EnrichUrls :
       /\ eUrl' = url
       /\ eEntryAge' = (IF url \in DOMAIN fetchedUrlsCache
                        THEN clock - fetchedUrlsCache[url] ELSE NeverFetched)
       /\ IF InCooldown(fetchedUrlsCache, url, clock)
          THEN /\ ePc' = "done"
               /\ eResult' = NOT_FOUND
               /\ fetchedUrlsCache' = fetchedUrlsCache
          ELSE /\ ePc' = "fetch"
               /\ eResult' = NoResult
               /\ fetchedUrlsCache' =
                    [u \in DOMAIN fetchedUrlsCache \cup {url} |->
                       IF u = url THEN clock ELSE fetchedUrlsCache[u]]
  /\ ePage' = NoPage
  /\ eFetches' = 0
  /\ eLlm' = "none"
  /\ eStage1' = "none"
  /\ eFirst' = "none"
  /\ UNCHANGED clock
  /\ UNCHANGED concVars
  /\ UNCHANGED <<clientVars, orchVars, dlVars, genVars, gwVars, appVars, faVars>>

\* the servers that answer /api/proxy: the serverless handler of
\* api/proxy.js and the bypass of the development server
GatewayDeployments == {"handler", "devServer"}

\* the status the client's fetch sees for an origin status: the handler
\* turns 202 into 429 and forwards the rest; the development server forwards
\* a status that is not ok and answers an ok origin with its default 200
GatewayStatus(deployment, origin) ==
  IF deployment = "handler" THEN ProxyStatus(origin)
  ELSE IF IsOk(origin) THEN 200 ELSE origin

\* the class of an origin answer
FirstAnswer(origin, page) ==
  IF origin = 202 THEN "pending"
  ELSE IF IsBlocked(page, origin) THEN "blocked"
  ELSE "clear"

\* lines 832-899: the page is requested through the gateway
EnrichFetch ==
  /\ ePc = "fetch"
  /\ eFetches' = eFetches + 1
  /\ \/ Stage1Fails /\ eFirst' = "none"                     \* fetch throws
     \/ \E origin \in OriginStatuses, deployment \in GatewayDeployments :
        \E page \in (IF origin = 200 THEN Pages ELSE ErrorPages) :
          LET status == GatewayStatus(deployment, origin)
          IN /\ eFirst' = FirstAnswer(origin, page)
             /\ IF status = 202 THEN Stage1Fails
                ELSE IF IsBlocked(page, status)
                     THEN /\ ePc' = "cache"
                          /\ UNCHANGED <<ePage, eResult, eStage1>>
                     ELSE IF ~IsOk(status) THEN Stage1Fails
                          ELSE RunCascade(page)
  /\ UNCHANGED <<fetchedUrlsCache, clock, eUrl, eLlm, eEntryAge>>
  /\ UNCHANGED concVars
  /\ UNCHANGED <<clientVars, orchVars, dlVars, genVars, gwVars, appVars, faVars>>

\* lines 875-894: one request for the cache mirror of the URL
EnrichCacheFetch ==
  /\ ePc = "cache"
  /\ eFetches' = eFetches + 1
  /\ \/ Stage1Fails                      \* fetch throws, or the answer is not ok
     \/ \E origin \in OriginStatuses, usable \in BOOLEAN :
          IF ~IsOk(ProxyStatus(origin)) \/ ~usable THEN Stage1Fails
          ELSE \E page \in Pages : RunCascade(page)
  /\ UNCHANGED <<fetchedUrlsCache, clock, eUrl, eLlm, eEntryAge, eFirst>>
  /\ UNCHANGED concVars
  /\ UNCHANGED <<clientVars, orchVars, dlVars, genVars, gwVars, appVars, faVars>>

\* what the LLM request of lines 988-998 ends in
LlmOutcomes == {"throws", "empty", "sentinel", "text"}

\* an LLM stage that answers an extracted text with the sentinel
LlmStageLost(outcome) ==
  CASE outcome = "empty" -> <<"", 0>>
    [] OTHER -> NOT_FOUND

\* lines 1000-1003: abstract.trim(), or the sentinel when the request threw
LlmStage(outcome) ==
  CASE outcome = "throws" -> NOT_FOUND
    [] outcome = "sentinel" -> NOT_FOUND
    [] outcome = "empty" -> <<"", 0>>
    [] OTHER -> <<"llm", 0>>

\* lines 961-1004: the cleaned text is handed to the LLM
EnrichLlm ==
  /\ ePc = "llm"
  /\ \E outcome \in LlmOutcomes :
       /\ eLlm' = outcome
       /\ eResult' = LlmStage(outcome)
  /\ ePc' = "done"
  /\ UNCHANGED <<fetchedUrlsCache, clock, eUrl, ePage, eFetches, eEntryAge, eStage1, eFirst>>
  /\ UNCHANGED concVars
  /\ UNCHANGED <<clientVars, orchVars, dlVars, genVars, gwVars, appVars, faVars>>

\* the caller has taken the result
EnrichReturn ==
  /\ ePc = "done"
  /\ ePc' = "idle"
  /\ eUrl' = 0
  /\ ePage' = NoPage
  /\ eResult' = NoResult
  /\ eFetches' = 0
  /\ eLlm' = "none"
  /\ eEntryAge' = NeverFetched
  /\ eStage1' = "none"
  /\ eFirst' = "none"
  /\ UNCHANGED <<fetchedUrlsCache, clock>>
  /\ UNCHANGED concVars
  /\ UNCHANGED <<clientVars, orchVars, dlVars, genVars, gwVars, appVars, faVars>>

\* Date.now() advances between two calls
EnrichTick ==
  /\ ePc = "idle"
  /\ clock < MaxTicks * EnrichStep
  /\ clock' = clock + EnrichStep
  /\ UNCHANGED <<fetchedUrlsCache, ePc, eUrl, ePage, eResult, eFetches, eLlm, eEntryAge, eStage1,
                 eFirst>>
  /\ UNCHANGED concVars
  /\ UNCHANGED <<clientVars, orchVars, dlVars, genVars, gwVars, appVars, faVars>>

NextEnrich ==
  EnrichCall \/ EnrichFetch \/ EnrichCacheFetch \/ EnrichLlm \/ EnrichReturn \/ EnrichTick

SpecEnrich == Init /\ [][NextEnrich]_vars

\* ------------------------------------- concurrent fetchAbstractFromUrl calls
\* Several calls are in flight at once; each runs from its entry to its first
\* await (line 837) without interruption, as every JavaScript job does.
oneCallVars == <<ePc, eUrl, ePage, eResult, eFetches, eLlm, eEntryAge, eStage1, eFirst>>

\* a call that leaves the cache as it found it
CacheKept(cache, url, now) == cache

\* line 830: fetchedUrlsCache.set(targetUrl, now)
CacheSet(cache, url, now) ==
  [u \in DOMAIN cache \cup {url} |-> IF u = url THEN now ELSE cache[u]]

\* lines 820-837: a call enters; it returns the sentinel within the cooldown
\* of its URL, and otherwise stamps the URL and sends its gateway request
ConcEnter(c) ==
  /\ cPc[c] = "idle"
  /\ \E url \in EnrichUrls :
       /\ cUrl' = [cUrl EXCEPT ![c] = url]
       /\ IF InCooldown(fetchedUrlsCache, url, clock)
          THEN /\ cPc' = [cPc EXCEPT ![c] = "done"]
               /\ cResult' = [cResult EXCEPT ![c] = "NO_ABSTRACT_FOUND"]
               /\ UNCHANGED <<fetchedUrlsCache, cAt>>
          ELSE /\ fetchedUrlsCache' = CacheSet(fetchedUrlsCache, url, clock)
               /\ cPc' = [cPc EXCEPT ![c] = "fetch"]
               /\ cAt' = [cAt EXCEPT ![c] = clock]
               /\ UNCHANGED cResult
  /\ UNCHANGED <<clock, oneCallVars>>
  /\ UNCHANGED <<clientVars, orchVars, dlVars, genVars, gwVars, appVars, faVars>>

\* lines 837-1005: the awaits of a call that sent its request end; the call
\* returns an abstract or the sentinel
ConcFinish(c) ==
  /\ cPc[c] = "fetch"
  /\ cPc' = [cPc EXCEPT ![c] = "done"]
  /\ \E result \in {"abstract", "NO_ABSTRACT_FOUND"} :
       cResult' = [cResult EXCEPT ![c] = result]
  /\ UNCHANGED <<fetchedUrlsCache, clock, cUrl, cAt, oneCallVars>>
  /\ UNCHANGED <<clientVars, orchVars, dlVars, genVars, gwVars, appVars, faVars>>

\* Date.now() advances, also while calls are in flight
ConcTick ==
  /\ clock < MaxTicks * EnrichStep
  /\ clock' = clock + EnrichStep
  /\ UNCHANGED <<fetchedUrlsCache, concVars, oneCallVars>>
  /\ UNCHANGED <<clientVars, orchVars, dlVars, genVars, gwVars, appVars, faVars>>

NextConcurrent ==
  \/ \E c \in ConcCalls : ConcEnter(c)
  \/ \E c \in ConcCalls : ConcFinish(c)
  \/ ConcTick

SpecConcurrent == Init /\ [][NextConcurrent]_vars

\* ------------------------------------- handleDownloadPaper / attemptDownload
\* a link is a host (with its path) and a query string; site 1 is on
\* semanticscholar.org and is also linked to with a query string
Urls == {u \in [site : 1..NumSites, query : 0..1] : u.query = 1 => u.site = 1}

\* url.split('?')[0].split('#')[0]
UrlKey(url) == [url EXCEPT !.query = 0]

\* normalizeUrl: scheme, www., fragment and query removed
NormalizeUrl(url) == url.site

\* a.includes(b) on the link strings
UrlIncludes(a, b) == a.site = b.site /\ (b.query = 0 \/ a.query = b.query)

\* targetUrl.includes('semanticscholar.org')
IsSemanticReader(url) == url.site = 1

PDF_TYPE == "application/pdf"
OCTET_TYPE == "application/octet-stream"
HTML_TYPE == "text/html"

\* status codes an origin answers a document request with
DlOriginStatuses == {200, 202, 403, 429}

\* content types an origin declares ("" when the header is missing)
OriginTypes == {PDF_TYPE, HTML_TYPE, ""}

\* what an origin server answers: status, declared type, whether the body
\* starts with %PDF, body size in bytes, the deep link in an HTML body
OriginResponses ==
  {o \in [status : DlOriginStatuses, contentType : OriginTypes, magic : BOOLEAN,
          size : {500, 5000}, link : Urls \cup {NoUrl}] :
     o.link # NoUrl => (o.contentType = HTML_TYPE /\ ~o.magic)}

\* the Content-Type header the gateway answers with
ProxyContentType(ct) ==
  IF ct = "" THEN OCTET_TYPE
  ELSE IF ct \in {PDF_TYPE, OCTET_TYPE} THEN ct
  ELSE HTML_TYPE

\* a successful response declared text/html whose body starts with %PDF and
\* has the minimum size of a document
Mislabeled(r) ==
  IsOk(r.status) /\ r.contentType = HTML_TYPE /\ r.magic /\ r.size >= MIN_PDF_SIZE

\* a successful response declared as a PDF whose body starts with %PDF and
\* has the minimum size of a document
ValidPdf(r) ==
  IsOk(r.status) /\ r.contentType = PDF_TYPE /\ r.magic /\ r.size >= MIN_PDF_SIZE

\* the gateway's answer for an origin response
ProxyResponse(o) ==
  IF o.status = 202
  THEN [status |-> ProxyStatus(o.status), contentType |-> HTML_TYPE, magic |-> FALSE,
        size |-> 500, link |-> NoUrl]
  ELSE [o EXCEPT !.contentType = ProxyContentType(o.contentType)]

HtmlDoc(url) == [type |-> "html", originalUrl |-> url]
PdfDoc(url) == [type |-> "pdf", originalUrl |-> url]

\* a session that keeps no record of what it fetched
AlreadyFetchedNever(key) == FALSE

\* globalFetchedUrls.current.has(urlKey)
AlreadyFetched(key) == key \in globalFetchedUrls

\* a block-list that is never consulted
isBlockedNever(url) == FALSE

\* storageService.isBlocked(url): the store holds an entry under the URL
isBlocked(url) == url \in blockedUrls

\* the entry of attemptDownload up to the fetch: which guard returns null,
\* or "fetch" when the call goes on to fetch
EnterOutcome(url, depth, visited) ==
  IF globalRequestCount + 1 > MAX_REQUESTS_PER_DOWNLOAD THEN "limit"
  ELSE IF AlreadyFetched(UrlKey(url)) THEN "fetched"
  ELSE IF <<"norm", NormalizeUrl(url)>> \in visited THEN "visited"
  ELSE IF isBlocked(url) THEN "blocked"
  ELSE IF depth > MAX_DEPTH THEN "depth"
  ELSE "fetch"

RequestCountStuck(n) == n

\* globalRequestCount.current++
RequestCountAfter(n) == n + 1

\* what the outermost call returns when the innermost call returns v over
\* the awaiting callers: a caller returns the deep document if there is one and
\* its own HTML document otherwise
Unwound(callers, v) ==
  IF v # Null \/ callers = <<>> THEN v
  ELSE HtmlDoc(callers[Len(callers)].url)

\* the outermost call returns
ReturnTop(callers, v) ==
  /\ stack' = <<>>
  /\ visitedUrls' = {}
  /\ aResult' = Unwound(callers, v)
  /\ aReturned' = TRUE

\* attemptDownload(url, depth, requirePdf, visited) called under the callers
Enter(url, depth, requirePdf, visited, callers) ==
  LET out == EnterOutcome(url, depth, visited) IN
  /\ globalRequestCount' = RequestCountAfter(globalRequestCount)
  /\ globalFetchedUrls' = IF out \in {"limit", "fetched"} THEN globalFetchedUrls
                          ELSE globalFetchedUrls \cup {UrlKey(url)}
  /\ aCycle' = (aCycle \/ out \in {"fetched", "visited"})
  /\ aKeys' = (IF out = "fetch" THEN aKeys \cup {UrlKey(url)} ELSE aKeys)
  /\ aDup' = (aDup \/ (out = "fetch" /\ UrlKey(url) \in aKeys))
  /\ aUnguarded' = (aUnguarded
                     \/ (out = "fetch"
                         /\ (\/ depth > MAX_DEPTH
                             \/ <<"norm", NormalizeUrl(url)>> \in visited
                             \/ <<"raw", url>> \in visited
                             \/ url \in blockedUrls)))
  /\ IF out = "fetch"
     THEN /\ stack' = Append(callers, [url |-> url, depth |-> depth, requirePdf |-> requirePdf])
          /\ visitedUrls' = visited \cup {<<"norm", NormalizeUrl(url)>>, <<"raw", url>>}
          /\ aResult' = Null
          /\ aReturned' = FALSE
     ELSE ReturnTop(callers, Null)

otherVarsDl == <<clientVars, orchVars, enrVars, genVars, gwVars, appVars, faVars>>

\* handleDownloadPaper up to the first await: the double-click guard and the
\* reset of the session's trackers
DlBegin ==
  /\ dlPc = "idle"
  /\ dlSessions < MaxSessions
  /\ ~isDownloading
  /\ isDownloading' = TRUE
  /\ globalFetchedUrls' = {}
  /\ globalRequestCount' = 0
  /\ \E u \in Urls \cup {NoUrl} : oaUrl' = u /\ oaListed' = (u \in blockedUrls)
  /\ dlPc' = "session"
  /\ stack' = <<>>
  /\ visitedUrls' = {}
  /\ aResult' = Null
  /\ dlSessions' = dlSessions + 1
  /\ aReturned' = FALSE
  /\ aFetches' = 0
  /\ aMislabeled' = FALSE
  /\ aCycle' = FALSE
  /\ aSeen' = NoSeen
  /\ aKeys' = {}
  /\ aDup' = FALSE
  /\ aUnguarded' = FALSE
  /\ aDeepPdf' = FALSE
  /\ dFetched' = NoUrl
  /\ aIgnored' = FALSE
  /\ aOverlap' = FALSE
  /\ UNCHANGED <<blockedUrls, semanticReaderFailCount, isSemanticReaderDisabled,
                 brTimers, brObs>>
  /\ UNCHANGED otherVarsDl

\* the helper entered for a candidate link of the paper: depth 0, a new
\* visited set
AttemptCall ==
  /\ dlPc = "session"
  /\ stack = <<>>
  /\ globalRequestCount < MaxRequests
  /\ \E url \in Urls, requirePdf \in BOOLEAN : Enter(url, 0, requirePdf, {}, <<>>)
  /\ aMislabeled' = FALSE
  /\ aSeen' = NoSeen
  /\ aDeepPdf' = FALSE
  /\ UNCHANGED <<isDownloading, blockedUrls, semanticReaderFailCount,
                 isSemanticReaderDisabled, dlPc, oaUrl, dlSessions,
                 aFetches, oaListed, dFetched, brTimers, brObs, aIgnored, aOverlap>>
  /\ UNCHANGED otherVarsDl

\* the response is classified without a recursive call: the value the
\* innermost call returns, or "recurse"
Classify(f, r) ==
  LET contentType == IF r.magic THEN PDF_TYPE ELSE r.contentType IN
  IF contentType \in {PDF_TYPE, OCTET_TYPE} /\ r.size < MIN_PDF_SIZE
  THEN Null
  ELSE \* a body that passes the size check leaves the PDF branch, which
       \* builds no document, and goes on to the text/html test
       IF contentType = HTML_TYPE
       THEN IF f.requirePdf /\ ~IsSemanticReader(f.url) THEN Null
            ELSE IF f.depth < MAX_DEPTH /\ r.link # NoUrl
                      /\ <<"raw", r.link>> \notin visitedUrls
                      /\ r.link # f.url /\ ~UrlIncludes(r.link, f.url)
                      /\ ~UrlIncludes(f.url, r.link)
                 THEN [type |-> "recurse", originalUrl |-> r.link]
                 ELSE HtmlDoc(f.url)
       ELSE Null

\* lines 2551-2565: a 202 answer for a Semantic Reader link is counted; at
\* the threshold the breaker is set and a timer is started that clears the
\* flag and the count
On202(url) ==
  IF IsSemanticReader(url)
  THEN /\ semanticReaderFailCount' = semanticReaderFailCount + 1
       /\ IF semanticReaderFailCount + 1 >= SEMANTIC_READER_FAIL_THRESHOLD
          THEN /\ isSemanticReaderDisabled' = TRUE
               /\ brTimers' = brTimers \cup {SEMANTIC_READER_RESET_MS}
          ELSE UNCHANGED <<isSemanticReaderDisabled, brTimers>>
  ELSE UNCHANGED <<semanticReaderFailCount, isSemanticReaderDisabled, brTimers>>

\* the fetch of the innermost call completes and the call runs to its
\* return or to the recursive call
AttemptFetch ==
  /\ stack # <<>>
  /\ LET f == stack[Len(stack)]
         callers == SubSeq(stack, 1, Len(stack) - 1) IN
     /\ aFetches' = aFetches + 1
     /\ \/ \* the fetch throws or is aborted after 5 s
           /\ ReturnTop(callers, Null)
           /\ aMislabeled' = FALSE
           /\ aDeepPdf' = FALSE
           /\ aSeen' = (IF callers = <<>> THEN NoSeen ELSE aSeen)
           /\ UNCHANGED <<blockedUrls, semanticReaderFailCount,
                          isSemanticReaderDisabled, brTimers, globalFetchedUrls,
                          globalRequestCount, aCycle, aKeys, aDup, aUnguarded>>
        \/ \E o \in OriginResponses :
             LET r == ProxyResponse(o) IN
             /\ aMislabeled' = Mislabeled(r)
             /\ aDeepPdf' = (callers # <<>> /\ ValidPdf(r))
             /\ IF r.status = 429
                THEN /\ \E stored \in BOOLEAN :
                          blockedUrls' = IF stored THEN blockedUrls \cup {f.url}
                                         ELSE blockedUrls
                     /\ ReturnTop(callers, Null)
                     /\ UNCHANGED <<semanticReaderFailCount, isSemanticReaderDisabled,
                                    brTimers, globalFetchedUrls, globalRequestCount, aCycle,
                                    aKeys, aDup, aUnguarded>>
                ELSE IF r.status = 202
                THEN /\ On202(f.url)
                     /\ ReturnTop(callers, Null)
                     /\ UNCHANGED <<blockedUrls, globalFetchedUrls, globalRequestCount, aCycle,
                                    aKeys, aDup, aUnguarded>>
                ELSE LET v == Classify(f, r) IN
                     /\ IF v.type = "recurse"
                        THEN Enter(v.originalUrl, f.depth + 1, FALSE, visitedUrls, stack)
                        ELSE /\ ReturnTop(callers, v)
                             /\ aCycle' = (aCycle \/ (r.link # NoUrl
                                                      /\ <<"raw", r.link>> \in visitedUrls))
                             /\ UNCHANGED <<globalFetchedUrls, globalRequestCount,
                                            aKeys, aDup, aUnguarded>>
                     /\ UNCHANGED <<blockedUrls, semanticReaderFailCount,
                                    isSemanticReaderDisabled, brTimers>>
             /\ aSeen' = (IF callers = <<>>
                          THEN [origin |-> o.status, listed |-> f.url \in blockedUrls',
                                marked |-> UrlKey(f.url) \in globalFetchedUrls']
                          ELSE aSeen)
  /\ UNCHANGED <<isDownloading, dlPc, oaUrl, dlSessions, oaListed, dFetched, brObs,
                 aIgnored, aOverlap>>
  /\ UNCHANGED otherVarsDl

\* the live path of handleDownloadPaper: one fetch of the paper's
\* openAccessPdf link, then the session ends
DlDirect ==
  /\ dlPc = "session"
  /\ stack = <<>>
  /\ IF oaUrl = NoUrl
     THEN UNCHANGED <<aResult, aMislabeled>>
     ELSE \/ \* the fetch throws or is aborted after 10 s
             /\ aResult' = Null
             /\ aMislabeled' = FALSE
          \/ \E o \in OriginResponses :
               LET r == ProxyResponse(o)
                   isPdf == r.magic \/ r.contentType = PDF_TYPE IN
               /\ aMislabeled' = Mislabeled(r)
               /\ aResult' = IF IsOk(r.status) /\ isPdf /\ r.size >= MIN_PDF_SIZE
                             THEN PdfDoc(oaUrl)
                             ELSE Null
  /\ dFetched' = oaUrl
  /\ isDownloading' = FALSE
  /\ dlPc' = "idle"
  /\ UNCHANGED <<globalFetchedUrls, globalRequestCount, blockedUrls,
                 semanticReaderFailCount, isSemanticReaderDisabled, oaUrl, stack,
                 visitedUrls, dlSessions, aReturned, aFetches, aCycle, aSeen,
                 aKeys, aDup, aUnguarded, aDeepPdf, oaListed, brTimers, brObs,
                 aIgnored, aOverlap>>
  /\ UNCHANGED otherVarsDl

\* a handler that does not test the flag
InProgressNever(flag) == FALSE

\* lines 2454-2457: the guard against concurrent downloads.  The handler of
\* a click is the one of the latest render, and React renders the update of
\* a click before it dispatches the next one, so the guard reads the current
\* value of the state.
InProgress(flag) == flag

\* lines 2452-2462: the download button is clicked while a session is in
\* flight
DlClickAgain ==
  /\ dlPc = "session"
  /\ IF InProgress(isDownloading)
     THEN /\ aIgnored' = TRUE
          /\ UNCHANGED <<isDownloading, globalFetchedUrls, globalRequestCount, aOverlap>>
     ELSE /\ isDownloading' = TRUE
          /\ globalFetchedUrls' = {}
          /\ globalRequestCount' = 0
          /\ aOverlap' = TRUE
          /\ UNCHANGED aIgnored
  /\ UNCHANGED <<blockedUrls, semanticReaderFailCount, isSemanticReaderDisabled,
                 dlPc, oaUrl, stack, visitedUrls, aResult, dlSessions, aReturned,
                 aFetches, aMislabeled, aCycle, aSeen, aKeys, aDup, aUnguarded,
                 aDeepPdf, oaListed, dFetched, brTimers, brObs>>
  /\ UNCHANGED otherVarsDl

NextDownload == DlBegin \/ AttemptCall \/ AttemptFetch \/ DlDirect

SpecDownload == Init /\ [][NextDownload]_vars

\* the sessions of a profile that has been used before
SpecResolve == InitStored /\ [][NextDownload]_vars

\* sessions during which the download button is clicked again
NextSession == NextDownload \/ DlClickAgain

SpecSession == Init /\ [][NextSession]_vars

\* ------------------------------------------------ Semantic Reader breaker
\* The breaker of attemptDownload behind an /api/proxy endpoint that answers
\* with the status of the origin. The handler and the development server of
\* this repository answer an origin's 202 with 429 and 200 (GatewayStatus),
\* and behind them line 2548 is not reached.
sessionVars == <<isDownloading, globalFetchedUrls, globalRequestCount, blockedUrls,
                 dlPc, oaUrl, stack, visitedUrls, aResult,
                 dlSessions, aReturned, aFetches, aMislabeled, aCycle, aSeen,
                 aKeys, aDup, aUnguarded, aDeepPdf, oaListed, dFetched,
                 aIgnored, aOverlap>>

BreakerStep == SEMANTIC_READER_RESET_MS \div 2

\* lines 2515-2569: an attemptDownload call that has passed its guards sends
\* its request and receives a status; no guard reads isSemanticReaderDisabled
BreakerResponse ==
  /\ brReqs < MaxBreakerRequests
  /\ \E url \in Urls, status \in DlOriginStatuses :
       /\ IF status = 202
          THEN On202(url)
          ELSE UNCHANGED <<semanticReaderFailCount, isSemanticReaderDisabled, brTimers>>
       /\ brRun' = IF IsSemanticReader(url)
                   THEN (IF status = 202 THEN brRun + 1 ELSE 0)
                   ELSE brRun
       /\ brSentTripped' = (brSentTripped
                            \/ (IsSemanticReader(url) /\ isSemanticReaderDisabled))
  /\ brReqs' = brReqs + 1
  /\ brEarly' = (brEarly \/ (isSemanticReaderDisabled' /\ ~isSemanticReaderDisabled
                              /\ brRun' < SEMANTIC_READER_FAIL_THRESHOLD))
  /\ UNCHANGED sessionVars
  /\ UNCHANGED otherVarsDl

\* lines 2559-2563: time passes; a timer that runs out clears the flag and
\* the count
BreakerTick ==
  /\ brTimers # {}
  /\ LET aged == {t - BreakerStep : t \in brTimers} IN
     /\ brTimers' = aged \ {0}
     /\ IF 0 \in aged
        THEN isSemanticReaderDisabled' = FALSE /\ semanticReaderFailCount' = 0
        ELSE UNCHANGED <<isSemanticReaderDisabled, semanticReaderFailCount>>
  /\ UNCHANGED brObs
  /\ UNCHANGED sessionVars
  /\ UNCHANGED otherVarsDl

NextBreaker == BreakerResponse \/ BreakerTick

SpecBreaker == Init /\ [][NextBreaker]_vars

\* ------------------------------------------------ handleFetchAbstract
\* what a fetchAbstractFromUrl call returns to the handler: the sentinel, the
\* empty text, or a text of some length
AbstractResults ==
  {[kind |-> "sentinel", len |-> SENTINEL_LEN], [kind |-> "empty", len |-> 0]}
  \cup {[kind |-> "text", len |-> n] :
          n \in {SUMMARY_MIN_LEN, SUMMARY_MIN_LEN + 1, FALLBACK_MIN_LEN - 1,
                 FALLBACK_MIN_LEN, FALLBACK_MIN_LEN + 1}}

\* line 2878: the source scrape failed or is too short
NeedsFallback(r) ==
  r.kind = "empty" \/ r.kind = "sentinel" \/ r.len < FALLBACK_MIN_LEN

\* line 2890: the fallback's text replaces the first result
FallbackGood(r) ==
  r.kind # "empty" /\ r.len > FALLBACK_MIN_LEN /\ r.kind # "sentinel"

\* a handler that stores whatever the enrichment returned
UsableAlways(r) == TRUE

\* line 2897: the result is stored
Usable(r) ==
  r.kind \notin {"empty", "none"} /\ r.len > SUMMARY_MIN_LEN /\ r.kind # "sentinel"

\* lines 2897-2913: the result is stored under the call's index when it is
\* usable, then the finally block clears fetchingAbstractId
StoreAndFinish(r) ==
  /\ fullAbstract' = r
  /\ IF Usable(r)
     THEN /\ enhancedSummaries' = [enhancedSummaries EXCEPT ![faIndex] = r]
          /\ summaries' = [summaries EXCEPT ![faIndex] = r]
     ELSE UNCHANGED <<enhancedSummaries, summaries>>
  /\ fetchingAbstractId' = NoIndex
  /\ faPc' = "idle"

\* lines 2863-2870: the handler is called for the paper at an index
FetchAbstractCall ==
  /\ faPc = "idle"
  /\ faCalls < MaxEnrichments
  /\ \E index \in PaperIndices, link \in BOOLEAN :
       /\ faIndex' = index
       /\ faLink' = link
       /\ fetchingAbstractId' = index
  /\ faPc' = "primary"
  /\ fullAbstract' = NoAbstract
  /\ faBefore' = [papers |-> summaries, enhanced |-> enhancedSummaries]
  /\ faCalls' = faCalls + 1
  /\ faFailedBefore' = (faFailedBefore \/ (faCalls > 0 /\ fullAbstract.kind # "text"))
  /\ UNCHANGED <<summaries, enhancedSummaries>>
  /\ UNCHANGED <<clientVars, orchVars, enrVars, dlVars, genVars, gwVars, appVars>>

\* lines 2870-2878: the enrichment of the paper's URL returns or throws
FetchAbstractPrimary ==
  /\ faPc = "primary"
  /\ \/ \* the await throws: catch, then finally
        /\ fullAbstract' = NoAbstract
        /\ fetchingAbstractId' = NoIndex
        /\ faPc' = "idle"
        /\ UNCHANGED <<summaries, enhancedSummaries>>
     \/ \E r \in AbstractResults :
          IF NeedsFallback(r) /\ faLink
          THEN /\ fullAbstract' = r
               /\ faPc' = "fallback"
               /\ UNCHANGED <<summaries, enhancedSummaries, fetchingAbstractId>>
          ELSE StoreAndFinish(r)
  /\ UNCHANGED <<faIndex, faLink, faBefore, faCalls, faFailedBefore>>
  /\ UNCHANGED <<clientVars, orchVars, enrVars, dlVars, genVars, gwVars, appVars>>

\* lines 2879-2893: the enrichment of the paper's detail page returns or throws
FetchAbstractFallback ==
  /\ faPc = "fallback"
  /\ \/ /\ fullAbstract' = NoAbstract
        /\ fetchingAbstractId' = NoIndex
        /\ faPc' = "idle"
        /\ UNCHANGED <<summaries, enhancedSummaries>>
     \/ \E r \in AbstractResults :
          StoreAndFinish(IF FallbackGood(r) THEN r ELSE fullAbstract)
  /\ UNCHANGED <<faIndex, faLink, faBefore, faCalls, faFailedBefore>>
  /\ UNCHANGED <<clientVars, orchVars, enrVars, dlVars, genVars, gwVars, appVars>>

NextFetchAbstract == FetchAbstractCall \/ FetchAbstractPrimary \/ FetchAbstractFallback

SpecFetchAbstract == Init /\ [][NextFetchAbstract]_vars

\* ------------------------------------------- the /api/proxy handler
\* what an origin answers the gateway's fetch: status, declared type, whether
\* the body starts with %PDF, its size, and whether it holds an ad or
\* analytics script
GatewayOrigins ==
  [status : OriginStatuses, contentType : OriginTypes, magic : BOOLEAN,
   size : {500, 5000}, ads : BOOLEAN]

\* src/api/proxy.js lines 27-58: the handler's answer for an origin response
GatewayAnswer(o) ==
  IF o.status = 202
  THEN [status |-> ProxyStatus(o.status), contentType |-> HTML_TYPE, magic |-> FALSE,
        size |-> 500, ads |-> FALSE]
  ELSE IF ProxyContentType(o.contentType) \in {PDF_TYPE, OCTET_TYPE}
  THEN [o EXCEPT !.status = ProxyStatus(o.status),
                 !.contentType = ProxyContentType(o.contentType)]
  ELSE [o EXCEPT !.status = ProxyStatus(o.status),
                 !.contentType = ProxyContentType(o.contentType),
                 !.ads = FALSE]

\* src/api/proxy.js lines 1-63: one request to /api/proxy
GatewayHandle ==
  /\ \E hasUrl \in BOOLEAN :
       IF ~hasUrl
       THEN /\ gwOrigin' = NoOrigin
            /\ gwAnswer' = [NoOrigin EXCEPT !.status = 400, !.contentType = HTML_TYPE]
       ELSE \/ \* fetch throws
               /\ gwOrigin' = NoOrigin
               /\ gwAnswer' = [NoOrigin EXCEPT !.status = 500, !.contentType = HTML_TYPE]
            \/ \E o \in GatewayOrigins :
                 /\ gwOrigin' = o
                 /\ gwAnswer' = GatewayAnswer(o)
  /\ UNCHANGED <<clientVars, orchVars, enrVars, dlVars, genVars, appVars, faVars>>

NextGateway == GatewayHandle

SpecGateway == Init /\ [][NextGateway]_vars

\* ================================================================ claims
\* C1: the paper list a run returns holds no two papers whose lower-cased
\* titles are equal
C1_NoDuplicateTitles ==
  oPc = "done" =>
    \A a, b \in 1..Len(finalPapers) :
      a # b => ToLowerCase(finalPapers[a]) # ToLowerCase(finalPapers[b])

\* a run returned two papers or more after dropping a duplicate
C1_Witness == oPc = "done" /\ oDropped /\ Len(finalPapers) >= 2

\* C2: the number of papers a run returns is at most scanDepth, for every
\* scanDepth including 0
C2_AtMostScanDepth == oPc = "done" => Len(finalPapers) <= scanDepth

C4_ThreeRetriesThenTrip ==
  /\ s429Run <= MAX_RETRY + 2
  /\ s429Run = MAX_RETRY + 2 =>
       /\ sPc = "done"
       /\ sReqs >= MAX_RETRY + 2
       /\ allPapers = <<>> => (sTripped /\ sResult = <<>>)

\* a call met four 429 answers in a row with nothing collected
C4_Witness == s429Run = MAX_RETRY + 2 /\ allPapers = <<>> /\ sTripped

\* C5: a search call entered less than the cooldown after the last trip,
\* with no explicit reset since that trip, returns the empty list without
\* issuing a request
C5_CooldownShortCircuits ==
  sGuarded => (sReqs = 0 /\ sPc = "done" /\ sResult = <<>>)

\* C6: no strategy's search is short-circuited by the breaker, and the
\* primary calls of a run are the strategies in order, each once
C6_FreshBreakerPerStrategy ==
  oPc \in {"await", "loop", "afterLoop"} =>
    /\ ~sShort
    /\ Len(oCalls) <= Len(queryStrategies)
    /\ oCalls = SubSeq(queryStrategies, 1, Len(oCalls))
    /\ \A a, b \in 1..Len(oCalls) : a # b => oCalls[a] # oCalls[b]

\* a later strategy issues a request while the cooldown of an earlier
\* strategy's trip is still running
C6_Witness ==
  /\ oPc = "await"
  /\ Len(oCalls) >= 2
  /\ sReqs > 0
  /\ ~sTripped
  /\ breakerTimers # <<>>
  /\ tripAge # NoTrip /\ tripAge < RATE_LIMIT_COOLDOWN_MS

\* C7: when the response handled last was declared text/html, its body
\* starts with %PDF and has at least the minimum size, the resolution yields
\* a document of type pdf
C7_MislabeledPdfYieldsPdf == aMislabeled => aResult.type = "pdf"

\* C8 (as stated): when the text the cascade runs on holds a JSON-LD
\* description/abstract value of at least 100 characters, enrich returns
\* such a value
C8_JsonLdAtLeastMin ==
  (ePc = "done" /\ eStage1 = "ok"
     /\ \E k \in 1..Len(ePage.jsonLd) : ePage.jsonLd[k].len >= ABSTRACT_MIN_LEN)
  => \E k \in 1..Len(ePage.jsonLd) :
       ePage.jsonLd[k].len >= ABSTRACT_MIN_LEN /\ eResult = <<"jsonld", k>>

\* C8 (amended): when the first JSON-LD description/abstract string of the
\* text the cascade runs on, as matched up to its first double quote, is
\* longer than 100 characters, enrich returns that string, whatever the
\* later stages would match
C8_FirstJsonLdOverMin ==
  (ePc = "done" /\ eStage1 = "ok" /\ ePage.jsonLd # <<>>
     /\ ePage.jsonLd[1].matched > ABSTRACT_MIN_LEN)
  => eResult = <<"jsonld", 1>>

\* the JSON-LD value is returned although the meta tags, the inline field
\* and a container would match as well
C8_Witness ==
  /\ ePc = "done" /\ eStage1 = "ok"
  /\ ePage.jsonLd # <<>> /\ ePage.jsonLd[1].matched > ABSTRACT_MIN_LEN
  /\ MetaStage(ePage) # NoResult /\ RawJsonStage(ePage) # NoResult
  /\ ContainerStage(ePage) # NoResult
  /\ eResult = <<"jsonld", 1>>

\* C9 (as stated): NOT_FOUND is returned only after the stages have failed:
\* the page was requested, and either that request failed or the stages
\* reading the text found nothing and the LLM stage failed
C9_NotFoundOnlyAfterStages ==
  (ePc = "done" /\ eResult = NOT_FOUND) =>
    /\ eFetches >= 1
    /\ \/ eStage1 = "failed"
       \/ (eStage1 = "ok" /\ Cascade(ePage) = NoResult /\ eLlm \in {"throws", "sentinel"})

\* C9 (amended): NOT_FOUND is returned only when the cooldown guard answers
\* the call before any stage runs, or the page fetch fails, or the stages
\* reading the text find nothing and the LLM stage throws or answers with
\* the sentinel
C9_NotFoundCauses ==
  (ePc = "done" /\ eResult = NOT_FOUND) =>
    \/ (eFetches = 0 /\ eStage1 = "none" /\ eEntryAge # NeverFetched
          /\ eEntryAge < ENRICH_COOLDOWN_MS)
    \/ (eFetches >= 1 /\ eStage1 = "failed" /\ eLlm = "none")
    \/ (eFetches >= 1 /\ eStage1 = "ok" /\ Cascade(ePage) = NoResult
          /\ eLlm \in {"throws", "sentinel"})

\* NOT_FOUND after the stages reading the text found nothing and the LLM
\* answered with the sentinel
C9_Witness ==
  /\ ePc = "done" /\ eResult = NOT_FOUND
  /\ eStage1 = "ok" /\ eLlm = "sentinel" /\ Cascade(ePage) = NoResult
  /\ ePage.jsonLd # <<>>

\* C10: a call entered less than 30 s after the previous fetch of its URL
\* returns NOT_FOUND without a gateway or LLM request; a call entered
\* later requests the page again
C10_Cooldown ==
  /\ (ePc # "idle" /\ eEntryAge # NeverFetched /\ eEntryAge < ENRICH_COOLDOWN_MS)
       => (ePc = "done" /\ eResult = NOT_FOUND /\ eFetches = 0 /\ eLlm = "none")
  /\ (ePc # "idle" /\ eEntryAge >= ENRICH_COOLDOWN_MS)
       => (ePc = "fetch" \/ eFetches >= 1)

\* a call is answered by the cooldown guard after time has passed since
\* the previous fetch
C10_Witness ==
  /\ ePc = "done" /\ eResult = NOT_FOUND /\ eFetches = 0
  /\ eEntryAge > 0 /\ eEntryAge < ENRICH_COOLDOWN_MS

\* C11: whatever the LLM request ends in, the strategy list of a non-empty
\* topic is built and contains the basic keywords of the topic
C11_BasicAlwaysPresent ==
  gPc = "done" => Includes(gStrategies, extractKeywordsBasic(gTopic))

\* the LLM answered with valid keywords other than the basic keywords, and
\* the basic keywords are the second strategy
C11_Witness ==
  /\ gPc = "done"
  /\ gLlm.kind = "text"
  /\ gAiQuery # extractKeywordsBasic(gTopic)
  /\ Len(gStrategies) >= 2
  /\ gStrategies[2] = extractKeywordsBasic(gTopic)
  /\ extractKeywordsBasic(gTopic) # <<>>

\* C12 (as stated): for the topic Impact of AI on cancer the basic extractor
\* yields exactly the tokens impact and cancer
C12_ScenarioImpactCancer ==
  (gPc = "done" /\ gTopic = ScenarioTopic /\ gLlm.kind = "throws")
  => Range(SplitSpaces(gAiQuery)) =
       {<<"i", "m", "p", "a", "c", "t">>, <<"c", "a", "n", "c", "e", "r">>}

\* C12 (amended): for the topic Impact of AI on cancer the basic extractor
\* yields exactly the token cancer, impact being a word of the stop list
C12_ScenarioCancer ==
  (gPc = "done" /\ gTopic = ScenarioTopic /\ gLlm.kind = "throws")
  => Range(SplitSpaces(gAiQuery)) = {<<"c", "a", "n", "c", "e", "r">>}

\* the scenario topic went through the basic extractor
C12_Witness ==
  /\ gPc = "done" /\ gTopic = ScenarioTopic /\ gLlm.kind = "throws"
  /\ gStrategies[1] = extractKeywordsBasic(ScenarioTopic)

\* C13: the strategy list has at most 5 entries and no two of them are equal
C13_AtMostFiveDistinct ==
  gPc = "done" =>
    /\ Len(gStrategies) <= 5
    /\ \A a, b \in 1..Len(gStrategies) : a # b => gStrategies[a] # gStrategies[b]

\* all five candidates differ and the list holds the five of them
C13_Witness == gPc = "done" /\ Len(gStrategies) = 5

\* C14: the primary provider is called with the strategies in the order of
\* the list, no provider is called once the accepted papers have reached the
\* target, and the secondary provider is called at most once in a run, after
\* every strategy has been tried, with the topic as its query
C14_OrderedCallsOneFallback ==
  /\ ~oLate
  /\ Len(oSecondary) <= 1
  /\ \A k \in 1..Len(oSecondary) :
       /\ oSecondary[k].query = topic
       /\ oSecondary[k].tried = Len(queryStrategies)
  /\ LET primary == SelectSeq(oCalls, LAMBDA q : q # 0)
     IN /\ Len(primary) <= Len(queryStrategies)
        /\ primary = SubSeq(queryStrategies, 1, Len(primary))
        /\ oSecondary # <<>> => Len(primary) = Len(queryStrategies)

\* a run tried two strategies or more, stayed below the target and went to
\* the secondary provider
C14_Witness ==
  /\ oPc = "done"
  /\ Len(queryStrategies) >= 2
  /\ Len(oSecondary) = 1
  /\ Len(finalPapers) >= 1

\* C15: every invocation of the orchestrator works on a dedup set of its
\* own, which holds the keys of the papers accepted in this invocation and
\* nothing else, none of its searches is answered by the breaker, and a
\* second invocation that is given the result lists of the first returns the
\* papers the first returned
C15_RepeatedRunSameResult ==
  /\ seenTitles = {DedupKey(aggregatedPapers[k]) : k \in 1..Len(aggregatedPapers)}
  /\ oPc = "await" => ~sShort
  /\ (oPc = "done" /\ oPrev.valid /\ oReturned = oPrev.returned) => finalPapers = oPrev.papers

\* the first invocation accepted a paper and left the breaker tripped; the
\* second invocation received the same result lists and accepted a paper
C15_Witness ==
  /\ oPc = "done"
  /\ oPrev.valid
  /\ oPrev.breaker
  /\ oPrev.seen # {}
  /\ oReturned = oPrev.returned
  /\ finalPapers # <<>>

\* C19: when the secondary provider's page yields no record and holds a
\* block marker, what the orchestrator receives from the secondary search
\* differs from what it receives for a page that is merely empty
C19_BlockedDistinguishable ==
  \A k \in 1..Len(oSecondary) : oSecondary[k].blocked => ~oSecondary[k].sameAsEmpty

\* C16: an attemptDownload call whose gateway response has status 401, 403,
\* 429 or 504 returns null and leaves its URL on the block-list
C16_DeniedIsBlocked ==
  (aReturned /\ ProxyStatus(aSeen.origin) \in {401, 403, 429, 504}) =>
    /\ aResult = Null
    /\ aSeen.listed

C18_StatusForwarded == gwOrigin # NoOrigin => gwAnswer.status = gwOrigin.status

\* C20: a call of the primary client retries after a timeout or transport
\* failure at most MAX_RETRY times, and a call that a failure ends returns the
\* papers collected so far
C20_TwoFailureRetries ==
  /\ sFailRetries <= MAX_RETRY
  /\ sFailed => (sPc = "done" /\ sResult = allPapers)

\* C20 as the code has it: a call retries after a timeout or transport
\* failure at most MAX_RETRY + 1 times, and a call that a failure ends
\* returns the papers collected so far, the breaker untouched
C20_ThreeFailureRetries ==
  /\ sFailRetries <= MAX_RETRY + 1
  /\ sFailed => (sPc = "done" /\ sResult = allPapers /\ ~sTripped)

\* a call collected a page, then failed four times: three retries, and the
\* page is returned
C20_Witness ==
  /\ sFailed
  /\ sFailRetries = MAX_RETRY + 1
  /\ sReqs = MAX_RETRY + 3
  /\ sResult # <<>>

\* C21: a call that ends because its 429 retries are used up returns the
\* papers it has collected and leaves the breaker alone when it has
\* collected any, and trips the breaker and returns the empty list when it
\* has collected none; no call trips the breaker with papers collected
C21_TripOnlyWhenEmpty ==
  /\ sTripped => (allPapers = <<>> /\ sResult = <<>>)
  /\ (sPc = "done" /\ s429Run >= 1) =>
       IF allPapers # <<>>
       THEN sResult = allPapers /\ ~sTripped /\ ~isSemanticScholarRateLimited
       ELSE sTripped /\ sResult = <<>>

\* a call collected a page and then ran out of 429 retries
C21_Witness ==
  /\ sPc = "done"
  /\ s429Run >= 1
  /\ allPapers # <<>>
  /\ RetriesExhausted(retryCount)
  /\ sResult = allPapers

\* C22: in one session attemptDownload fetches no two URLs that are equal
\* once the query string and the fragment are removed
C22_NoKeyFetchedTwice == ~aDup

\* a session in which attemptDownload fetched one URL and was then called
\* with a URL of the same key, which it refused without a fetch
C22_Witness ==
  /\ dlPc = "session"
  /\ aReturned
  /\ aResult = Null
  /\ aKeys = {[site |-> 1, query |-> 0]}
  /\ aFetches = 1
  /\ globalRequestCount = 2
  /\ aCycle

C29_BlockedNeverFetched == dFetched # NoUrl => ~oaListed

\* C24: once the effect that awaits a run has been cleaned up, the run makes
\* no further provider call
C24_NoCallAfterCleanup == ~isMounted => Len(oCalls) = oCallsAtCleanup

\* C25: a call whose first fetch met status 202 or a block signature at the
\* origin makes exactly one more fetch, for the cache mirror; when that fetch
\* is of no use the call returns the sentinel and no later stage runs; no call
\* makes more than two fetches
C25_OneCacheRetry ==
  /\ eFetches <= 2
  /\ (ePc \in {"llm", "done"} /\ eFirst \in {"pending", "blocked"}) =>
       /\ eFetches = 2
       /\ eStage1 = "failed" => (eResult = NOT_FOUND /\ eLlm = "none")

\* C26: a call returns the sentinel or a text that is not empty, also when
\* the LLM stage answers with nothing
C26_TextOrSentinel ==
  ePc = "done" =>
    /\ eResult = NOT_FOUND \/ eResult[1] \in {"jsonld", "meta", "raw", "container", "llm"}
    /\ eLlm = "empty" => eResult = NOT_FOUND

\* C27 as claimed: a call that has fetched a batch and then gives up on 429
\* has met 429 four times in a row on the batch it gives up on (three retries
\* of that batch)
C27_AllowancePerBatch ==
  (sPc = "done" /\ s429Run >= 1 /\ sPages >= 1) => s429Run = MAX_RETRY + 2

\* C27 as amended: the retry allowance is per call.  Over all its batches a
\* call makes at most three retries, for 429 and for failed requests
\* together, so its requests are at most its fetched batches, three retries
\* and the request it ends on; a call gives up on 429 only with the
\* allowance used up
C27_AllowancePerCall ==
  /\ retryCount <= MAX_RETRY + 1
  /\ sReqs <= sPages + MAX_RETRY + 2
  /\ (sPc = "done" /\ s429Run >= 1) => retryCount = MAX_RETRY + 1

\* a call fetched a batch and gave up on a later batch after fewer than
\* three retries of it
C27_Witness ==
  /\ sPc = "done"
  /\ sPages >= 1
  /\ s429Run >= 1
  /\ s429Run < MAX_RETRY + 2
  /\ retryCount = MAX_RETRY + 1

\* C28: a call that followed a deep link to a valid PDF returns the PDF
\* document the recursion yields
C28_DeepPdfReturned ==
  (aReturned /\ aDeepPdf) => aResult.type = "pdf"

\* C30: a summary differs from what it was when the call began only at the
\* call's index and only by the usable text the enrichment returned; a call
\* whose enrichment ends in the sentinel, in nothing or in an exception leaves
\* every summary as it was and leaves the handler free for the next call
C30_OnlySuccessOverwrites ==
  /\ \A i \in PaperIndices :
       /\ summaries[i] # faBefore.papers[i] =>
            (i = faIndex /\ summaries[i] = fullAbstract /\ fullAbstract.kind = "text"
             /\ fullAbstract.len > SUMMARY_MIN_LEN)
       /\ enhancedSummaries[i] # faBefore.enhanced[i] =>
            (i = faIndex /\ enhancedSummaries[i] = fullAbstract
             /\ fullAbstract.kind = "text")
  /\ (faPc = "idle" /\ faCalls > 0 /\ fullAbstract.kind # "text") =>
       /\ summaries = faBefore.papers
       /\ enhancedSummaries = faBefore.enhanced
       /\ fetchingAbstractId = NoIndex

\* an enrichment failed, and the enrichment made after it overwrote the
\* summary of its paper
C30_Witness ==
  /\ faPc = "idle"
  /\ faCalls = 2
  /\ faFailedBefore
  /\ summaries[faIndex] = fullAbstract
  /\ fullAbstract.kind = "text"
  /\ summaries # faBefore.papers
  /\ faBefore.papers = [i \in PaperIndices |-> ProviderSummary]

\* the strategy calls among the provider calls of the run
PrimaryCalls == Len(SelectSeq(oCalls, LAMBDA q : q # 0))

\* C31: one politeness delay lies between two consecutive strategy calls and
\* none follows the last one: while a strategy call is awaited and after the
\* loop the delays are one fewer than the strategy calls, and before a
\* further call they are as many
C31_DelayBetweenCalls ==
  /\ oPc \in {"await", "afterLoop", "done"} => (PrimaryCalls >= 1 => oDelays = PrimaryCalls - 1)
  /\ oPc = "loop" => oDelays = PrimaryCalls
  /\ PrimaryCalls = 0 => oDelays = 0

\* a run made two strategy calls with one delay between them, met its
\* target with the second and returned without a further delay
C31_Witness ==
  /\ oPc = "done"
  /\ PrimaryCalls = 2
  /\ oDelays = 1
  /\ Len(finalPapers) = targetDepth

\* C32: the Semantic Reader breaker trips only on a run of 3 consecutive 202
\* answers of the host (another answer of the host restarts the count), no
\* request goes to the host while it is tripped, and a tripped breaker has
\* its reset pending within the cooldown of 120 s.
C32_BreakerConsecutive ==
  /\ ~brEarly
  /\ ~brSentTripped
  /\ isSemanticReaderDisabled => brTimers # {}
  /\ \A t \in brTimers : t <= SEMANTIC_READER_RESET_MS

\* the tokens of the basic extractor's output for the topic of the run
BasicTokens ==
  LET out == extractKeywordsBasic(gTopic) IN
  IF out = <<>> THEN <<>> ELSE SplitSpaces(out)

\* the words of the topic as the extractor reads them, before its filter
TopicTokens ==
  SplitSpaces(KeepChars(LowerCaseStr(gTopic), WordChars \cup SpaceChars \cup {"-"}))

\* the position of the first occurrence of w among the topic's words
FirstAt(w) ==
  CHOOSE i \in 1..Len(TopicTokens) :
    TopicTokens[i] = w /\ \A j \in 1..(i - 1) : TopicTokens[j] # w

\* C33: for every topic the output of the basic extractor holds no word of
\* the stop list, no token of length 2 or less and no token twice, and its
\* tokens stand in the order of their first occurrence in the topic.
C33_BasicTokensClean ==
  gPc = "done" =>
    /\ \A i \in 1..Len(BasicTokens) :
         /\ BasicTokens[i] \notin stopWords
         /\ Len(BasicTokens[i]) > 2
         /\ Includes(TopicTokens, BasicTokens[i])
    /\ \A i, j \in 1..Len(BasicTokens) :
         i < j => /\ BasicTokens[i] # BasicTokens[j]
                  /\ FirstAt(BasicTokens[i]) < FirstAt(BasicTokens[j])

\* a topic that names one word twice, once capitalised and with a punctuation
\* mark: the output is the one token
C33_Witness ==
  /\ gPc = "done"
  /\ gTopic = <<"c", "a", "n", "c", "e", "r", " ", "C", "a", "n", "c", "e", "r", "!">>
  /\ BasicTokens = << <<"c", "a", "n", "c", "e", "r">> >>

\* C34: a search call with target count n returns at most min(n, 500)
\* papers, whatever the sizes of the batches the provider answers with.
C34_AtMostHardLimit ==
  (sPc = "done" /\ ~sShort) => Len(sResult) <= hardLimit

\* C35: a search call ends after a bounded number of requests whatever the
\* requests end in: the requests of a call that deliver no records (failures,
\* 429s, the empty page) are at most the retry allowance and one more, every
\* page of records moves the offset forward, also when the quality filter
\* rejects all of its records, and the call goes on only while the provider
\* has more and the target is not met.
C35_BoundedRequests ==
  /\ sReqs - sPages <= MAX_RETRY + 2
  /\ offset >= sPages
  /\ sPc = "fetch" =>
       /\ hasMore
       /\ Len(allPapers) < hardLimit
       /\ retryCount <= MAX_RETRY + 1

\* a call that received a page whose only record the filter rejected, then
\* used up its retries and ended with nothing
C35_Witness ==
  /\ sPc = "done"
  /\ sPages = 1 /\ offset = 1 /\ allPapers = <<>>
  /\ sReqs - sPages = MAX_RETRY + 2
  /\ retryCount = MAX_RETRY + 1

\* the calls that sent a gateway request
ConcFetched == {c \in ConcCalls : cAt[c] # NeverFetched}

\* C36: however concurrent enrich calls for one URL interleave, two of them
\* that send a gateway request lie a full cooldown apart, and every other
\* call has returned NO_ABSTRACT_FOUND without a request.
C36_OneFetchPerWindow ==
  /\ \A c, d \in ConcFetched :
       (c # d /\ cUrl[c] = cUrl[d] /\ cAt[c] <= cAt[d])
         => cAt[d] - cAt[c] >= ENRICH_COOLDOWN_MS
  /\ \A c \in ConcCalls \ ConcFetched :
       cPc[c] # "idle" => (cPc[c] = "done" /\ cResult[c] = "NO_ABSTRACT_FOUND")

\* while the first call's request is still in flight a second call for the
\* same URL has returned the sentinel, and a third call, entered a cooldown
\* later, has sent its own request
C36_Witness ==
  \E c, d, e \in ConcCalls :
    /\ cPc[c] = "fetch" /\ cAt[c] = 0
    /\ cPc[d] = "done" /\ cAt[d] = NeverFetched /\ cUrl[d] = cUrl[c]
    /\ cPc[e] = "fetch" /\ cAt[e] = ENRICH_COOLDOWN_MS /\ cUrl[e] = cUrl[c]

\* C37: one download session at a time: an invocation of handleDownloadPaper
\* that begins while a session is in flight returns at its guard, starts no
\* second session, and leaves the session's request counter and fetched-URL
\* set as they are.
C37_SingleSession ==
  /\ ~aOverlap
  /\ dlPc = "session" =>
       /\ isDownloading
       /\ aKeys \subseteq globalFetchedUrls
       /\ globalRequestCount >= Cardinality(aKeys)

\* the button was clicked again during a session that has counted requests
\* and marked URLs, and the click was ignored
C37_Witness ==
  /\ dlPc = "session"
  /\ aIgnored
  /\ globalRequestCount >= 2
  /\ aKeys # {} /\ aKeys \subseteq globalFetchedUrls

\* C38: for every non-empty topic and every outcome of the LLM request, no
\* query of the strategy list, the first of which is always sent to the
\* primary provider, is the empty string.
C38_QueriesNonEmpty ==
  gPc = "done" =>
    /\ gTopic # <<>>
    /\ \A i \in 1..Len(gStrategies) : gStrategies[i] # <<>>

RestStates == {"FINISHED", "AWAITING_INPUT", "IDLE"}

\* C39: once handleStart has moved the application to ANALYZING, and every
\* agent call returns or throws, the application reaches FINISHED,
\* AWAITING_INPUT or IDLE; it does not rest in LIBRARIAN, DATA_SCIENTIST,
\* GHOSTWRITER or REVIEWER.
C39_ReachesRest == (appState = "ANALYZING") ~> (appState \in RestStates)

====
